---- MODULE Spec2Model ----
(***************************************************************************)
(* A model of the LLM backend of shell-werk (src-tauri/src/llm.rs): the    *)
(* configuration store behind its mutex, configuration normalisation, the  *)
(* bounded tool-calling loop of run_dialogue and the streaming codecs of   *)
(* run_stream.                                                             *)
(*                                                                         *)
(* Strings are sequences of one-character strings.  Option<T> is a         *)
(* sequence of length 0 (None) or 1 (Some).                                *)
(***************************************************************************)
EXTENDS Naturals, Sequences, FiniteSets

VARIABLES
    \* LlmState / LlmStore
    config,        \* LlmStore.config, the in-memory configuration
    disk,          \* the contents of the configuration file
    lock,          \* holder of LlmState.store (a Mutex): <<>> or <<caller>>
    cpc,           \* position of each caller of persist_config / update_selected_model
    cop,           \* the operation and argument each caller is running
    cres,          \* what each caller's last call returned
    ccalls,        \* how many calls each caller has started
    boot,          \* what the last LlmState::initialize returned, and how many ran
    returned,      \* what the calls of this process returned: the last Ok unless one failed
    \* LlmState::list_models
    lpc,           \* position of the call
    larg,          \* its `provider` argument: Option<LlmProvider>
    lcfg,          \* (provider_kind, provider_config) copied under the lock
    lres,          \* what list_models returned
    \* run_dialogue
    dpc,           \* position of the turn
    dreq,          \* DialogueRequest {history, input}
    dcfg,          \* (provider, provider_config, model) copied from the store
    conversation,  \* local `conversation`
    appended,      \* local `appended`
    pending,       \* local `pending`: Option<AssistantTurn>
    iterations,    \* local `iterations`
    dresult,       \* what run_dialogue returned
    responses,     \* the provider's answers to this turn's requests, in order
    dreturned,     \* the run_dialogue calls that have returned: result, requests sent so far
    \* the network and the clock
    requests,      \* every HTTP request sent, in order
    clock,         \* SystemTime::now() in microseconds
    \* run_stream
    spc,           \* position of each stream (by request id)
    sreq,          \* StreamRequest {history, input} of each stream
    sconv,         \* the conversation each stream's worker was given
    scfg,          \* (provider, provider_config, model) each worker was given
    sbody,         \* the response body the provider serves to each stream
    spos,          \* number of body lines each worker has read
    sres,          \* what each run_stream call returned
    events,        \* the "llm-stream" event channel, in emission order
    \* normalize as a function
    npc,           \* position of the normalisation run
    nin,           \* its input configuration
    nout,          \* normalize(nin)
    nout2          \* normalize(normalize(nin))

listVars == <<lpc, larg, lcfg, lres>>
storeVars == <<config, disk, lock, cpc, cop, cres, ccalls, boot, returned, listVars>>
storeRest == <<config, disk, cpc, cop, cres, ccalls, boot, returned, listVars>>
dlgVars == <<dpc, dreq, dcfg, conversation, appended, pending, iterations,
             dresult, responses, dreturned>>
netVars == <<requests, clock>>
streamVars == <<spc, sreq, sconv, scfg, sbody, spos, sres, events>>
normVars == <<npc, nin, nout, nout2>>
vars == <<storeVars, dlgVars, netVars, streamVars, normVars>>

----------------------------------------------------------------------------
(* Bounds of the model *)

\* longest base URL drawn as an input of normalize
MaxLen == 3
\* longest api key / selected model drawn as an input of normalize
MaxOptLen == 1
\* calls each caller of the configuration store makes
MaxCalls == 1
\* run_dialogue calls made one after the other on the same state
MaxTurns == 2
\* lines in a streamed response body
MaxLines == 4
\* microseconds the clock advances while turns run
MaxClock == 1

----------------------------------------------------------------------------
(* Strings and options *)

None == <<>>
Some(x) == <<x>>
IsSome(o) == Len(o) = 1
Unwrap(o) == o[1]

\* char::is_whitespace, on the model's alphabet
IsWhitespace(c) == c = " "

RECURSIVE TrimStart(_)
\* str::trim_start
TrimStart(s) ==
    IF s # <<>> /\ IsWhitespace(Head(s)) THEN TrimStart(Tail(s)) ELSE s

RECURSIVE TrimEnd(_)
\* str::trim_end
TrimEnd(s) ==
    IF s # <<>> /\ IsWhitespace(s[Len(s)])
    THEN TrimEnd(SubSeq(s, 1, Len(s) - 1))
    ELSE s

\* str::trim
Trim(s) == TrimEnd(TrimStart(s))

RECURSIVE TrimEndMatches(_, _)
\* str::trim_end_matches(ch)
TrimEndMatches(s, ch) ==
    IF s # <<>> /\ s[Len(s)] = ch
    THEN TrimEndMatches(SubSeq(s, 1, Len(s) - 1), ch)
    ELSE s

\* every sequence over S of length at most n
SeqsUpTo(S, n) == UNION {[1..k -> S] : k \in 0..n}

----------------------------------------------------------------------------
(* LlmConfiguration and its normalisation *)

LlmProvider == {"Vllm", "Ollama"}

\* default_base_url: the URL is one opaque token that is neither whitespace
\* nor a slash
default_base_url(provider) ==
    IF provider = "Vllm" THEN <<"http://127.0.0.1:8000">>
    ELSE <<"http://127.0.0.1:11434">>

\* sanitize_optional
sanitize_optional(value) ==
    IF IsSome(value) /\ Trim(Unwrap(value)) # <<>>
    THEN Some(Trim(Unwrap(value)))
    ELSE None

\* the base URL ProviderConnectionConfig::normalize computes
NormalizeBaseUrl(base_url, provider) ==
    LET filled == IF Trim(base_url) = <<>> THEN default_base_url(provider)
                  ELSE base_url
    IN TrimEndMatches(Trim(filled), "/")

\* ProviderConnectionConfig::normalize
NormalizeConnection(conn, provider) ==
    [base_url |-> NormalizeBaseUrl(conn.base_url, provider),
     api_key |-> sanitize_optional(conn.api_key)]

\* ProviderCollection::normalize
NormalizeProviders(providers) ==
    [vllm |-> NormalizeConnection(providers.vllm, "Vllm"),
     ollama |-> NormalizeConnection(providers.ollama, "Ollama")]

\* LlmConfiguration::normalize
Normalize(c) ==
    [active_provider |-> c.active_provider,
     selected_model |-> sanitize_optional(c.selected_model),
     providers |-> NormalizeProviders(c.providers)]

\* ProviderConnectionConfig::default_for
default_for(provider) ==
    [base_url |-> default_base_url(provider), api_key |-> None]

\* LlmConfiguration::default
DefaultConfig ==
    [active_provider |-> "Vllm",
     selected_model |-> None,
     providers |-> [vllm |-> default_for("Vllm"), ollama |-> default_for("Ollama")]]

\* ProviderCollection::get
ProviderGet(providers, provider) ==
    IF provider = "Vllm" THEN Some(providers.vllm) ELSE Some(providers.ollama)

----------------------------------------------------------------------------
(* The configuration file *)

\* #[serde(rename_all = "lowercase")] of LlmProvider
ProviderTag(provider) == IF provider = "Vllm" THEN "vllm" ELSE "ollama"
ProviderOfTag(tag) == IF tag = "vllm" THEN "Vllm" ELSE "Ollama"

\* serde_json::to_string_pretty(&LlmConfiguration): camelCase keys, null for None
Serialize(c) ==
    [activeProvider |-> ProviderTag(c.active_provider),
     selectedModel |-> c.selected_model,
     providers |->
        [vllm |-> [baseUrl |-> c.providers.vllm.base_url,
                   apiKey |-> c.providers.vllm.api_key],
         ollama |-> [baseUrl |-> c.providers.ollama.base_url,
                     apiKey |-> c.providers.ollama.api_key]]]

\* serde_json::from_str::<LlmConfiguration>
Deserialize(json) ==
    [active_provider |-> ProviderOfTag(json.activeProvider),
     selected_model |-> json.selectedModel,
     providers |->
        [vllm |-> [base_url |-> json.providers.vllm.baseUrl,
                   api_key |-> json.providers.vllm.apiKey],
         ollama |-> [base_url |-> json.providers.ollama.baseUrl,
                     api_key |-> json.providers.ollama.apiKey]]]

\* The file: absent, or a payload that is complete or cut short by a failed write
NoFile == <<>>
File(json) == <<[complete |-> TRUE, json |-> json]>>
CutFile(json) == <<[complete |-> FALSE, json |-> json]>>

\* what fs::write(&self.path, payload) can leave behind: the payload (Ok), or
\* on Err the old file (it could not be opened) or a truncated one
WriteOutcomes == {"ok", "unopened", "truncated"}
FsWrite(old, payload, outcome) ==
    CASE outcome = "ok" -> File(payload)
      [] outcome = "unopened" -> old
      [] OTHER -> CutFile(payload)

\* the configuration LlmStore::load builds before it persists it
LoadConfig(file) ==
    IF file = NoFile THEN DefaultConfig
    ELSE Normalize(Deserialize(file[1].json))

----------------------------------------------------------------------------
(* Inputs of the configuration store *)

Callers == {"c1", "c2"}

Conn(base_url, api_key) == [base_url |-> base_url, api_key |-> api_key]

CandA ==
    [active_provider |-> "Vllm",
     selected_model |-> Some(<<"m">>),
     providers |-> [vllm |-> Conn(<<"a", "/">>, Some(<<"k">>)),
                    ollama |-> Conn(<<"b">>, None)]]
CandB ==
    [active_provider |-> "Ollama",
     selected_model |-> Some(<<" ", "n">>),
     providers |-> [vllm |-> Conn(<<" ">>, None),
                    ollama |-> Conn(<<"b", "/">>, Some(<<"j", " ">>))]]
CandC ==
    [active_provider |-> "Vllm",
     selected_model |-> None,
     providers |-> [vllm |-> Conn(<<"/">>, Some(<<" ">>)),
                    ollama |-> Conn(<<"a", " ", "/">>, None)]]

\* the configurations callers submit to persist_config
Candidates == {CandA, CandB, CandC}

\* the model ids callers submit to update_selected_model
ModelIds == {None, Some(<<" ">>), Some(<<"n", " ">>)}

\* the files LlmState::initialize may find
PriorFiles == {NoFile} \cup {File(Serialize(c)) : c \in Candidates}

NoOp == [op |-> "none", next |-> DefaultConfig, model_id |-> None]
NoResult == [status |-> "none", value |-> DefaultConfig]
Ok(c) == [status |-> "Ok", value |-> c]
Err(c) == [status |-> "Err", value |-> c]

\* list_models before it has copied an entry, and before it has returned
NoEntry == [provider |-> "Vllm", provider_config |-> default_for("Vllm")]
NoListing == [status |-> "none", models |-> <<>>, error |-> ""]

----------------------------------------------------------------------------
(* LlmState: persist_config and update_selected_model *)

\* replace overwriting the connections only, keeping the model selected before
ReplaceKeepsModel(cur, next) ==
    [Normalize(next) EXCEPT !.selected_model = cur.selected_model]

\* LlmStore::replace, the assignment: self.config = next.normalize()
Replace(cur, next) == Normalize(next)

\* update_selected_model building the configuration anew around the model id
SetSelectedModelOnDefaults(cur, model_id) ==
    [DefaultConfig EXCEPT !.selected_model = sanitize_optional(model_id)]

\* update_selected_model, the assignment to guard.config.selected_model
SetSelectedModel(cur, model_id) ==
    [cur EXCEPT !.selected_model = sanitize_optional(model_id)]

\* the in-memory configuration a call leaves once it holds the lock
Mutated(cur, call) ==
    IF call.op = "persist_config" THEN Replace(cur, call.next)
    ELSE SetSelectedModel(cur, call.model_id)

\* a caller enters persist_config(next)
CallPersistConfig(c, next) ==
    /\ boot.status = "Ok"
    /\ cpc[c] = "idle"
    /\ ccalls[c] < MaxCalls
    /\ cpc' = [cpc EXCEPT ![c] = "lock"]
    /\ cop' = [cop EXCEPT ![c] = [op |-> "persist_config", next |-> next,
                                  model_id |-> None]]
    /\ ccalls' = [ccalls EXCEPT ![c] = @ + 1]
    /\ cres' = [cres EXCEPT ![c] = NoResult]
    /\ UNCHANGED <<config, disk, lock, boot, returned>>
    /\ UNCHANGED <<listVars, dlgVars, netVars, streamVars, normVars>>

\* a caller enters update_selected_model(model_id)
CallUpdateSelectedModel(c, model_id) ==
    /\ boot.status = "Ok"
    /\ cpc[c] = "idle"
    /\ ccalls[c] < MaxCalls
    /\ cpc' = [cpc EXCEPT ![c] = "lock"]
    /\ cop' = [cop EXCEPT ![c] = [op |-> "update_selected_model",
                                  next |-> DefaultConfig, model_id |-> model_id]]
    /\ ccalls' = [ccalls EXCEPT ![c] = @ + 1]
    /\ cres' = [cres EXCEPT ![c] = NoResult]
    /\ UNCHANGED <<config, disk, lock, boot, returned>>
    /\ UNCHANGED <<listVars, dlgVars, netVars, streamVars, normVars>>

\* self.store.lock(): blocks while another caller holds the mutex
Lock(c) ==
    /\ cpc[c] = "lock"
    /\ lock = <<>>
    /\ lock' = <<c>>
    /\ cpc' = [cpc EXCEPT ![c] = "mutate"]
    /\ UNCHANGED <<config, disk, cop, cres, ccalls, boot, returned>>
    /\ UNCHANGED <<listVars, dlgVars, netVars, streamVars, normVars>>

\* the assignment to guard.config, made before anything is written
Mutate(c) ==
    /\ cpc[c] = "mutate"
    /\ config' = Mutated(config, cop[c])
    /\ cpc' = [cpc EXCEPT ![c] = "persist"]
    /\ UNCHANGED <<disk, lock, cop, cres, ccalls, boot, returned>>
    /\ UNCHANGED <<listVars, dlgVars, netVars, streamVars, normVars>>

\* LlmStore::persist: serialise self.config and write the file; `?` on failure
Persist(c, outcome) ==
    /\ cpc[c] = "persist"
    /\ disk' = FsWrite(disk, Serialize(config), outcome)
    /\ cres' = [cres EXCEPT ![c] = IF outcome = "ok" THEN Ok(config) ELSE Err(config)]
    /\ returned' = IF returned.status = "Err" \/ outcome # "ok" THEN Err(config)
                   ELSE Ok(config)
    /\ cpc' = [cpc EXCEPT ![c] = "return"]
    /\ UNCHANGED <<config, lock, cop, ccalls, boot>>
    /\ UNCHANGED <<listVars, dlgVars, netVars, streamVars, normVars>>

\* the guard bound in the function's outer scope: it lives until the function
\* returns, across whatever the function does after copying
GuardHeldToReturn(holder) == <<holder>>

\* the mutex once the block (list_models) or the call (current_config) that
\* locked it has ended: the MutexGuard is a temporary of that scope and is
\* dropped with it, before the caller goes on
GuardDropped(holder) == <<>>

\* the call returns and its MutexGuard is dropped
Return(c) ==
    /\ cpc[c] = "return"
    /\ lock' = <<>>
    /\ cpc' = [cpc EXCEPT ![c] = "idle"]
    /\ UNCHANGED <<config, disk, cop, cres, ccalls, boot, returned>>
    /\ UNCHANGED <<listVars, dlgVars, netVars, streamVars, normVars>>

\* the process ends (the state is dropped) and LlmState::initialize runs again
\* on the same path: LlmStore::load reads and normalises the file, or fails on
\* one it cannot parse, and writes back what it loaded
Restart(outcome) ==
    /\ \A c \in Callers : cpc[c] = "idle"
    /\ \E c \in Callers : cres[c].status # "none"
    /\ lpc \in {"idle", "done"}
    /\ IF disk # NoFile /\ ~disk[1].complete
       THEN /\ boot' = [status |-> "Err", n |-> boot.n + 1]
            /\ UNCHANGED <<config, disk>>
       ELSE /\ config' = LoadConfig(disk)
            /\ disk' = FsWrite(disk, Serialize(LoadConfig(disk)), outcome)
            /\ boot' = [status |-> IF outcome = "ok" THEN "Ok" ELSE "Err",
                        n |-> boot.n + 1]
    /\ cop' = [c \in Callers |-> NoOp]
    /\ cres' = [c \in Callers |-> NoResult]
    /\ returned' = NoResult
    /\ UNCHANGED <<lock, cpc, ccalls>>
    /\ UNCHANGED <<listVars, dlgVars, netVars, streamVars, normVars>>

StoreStepOf(c) ==
    \/ \E next \in Candidates : CallPersistConfig(c, next)
    \/ \E model_id \in ModelIds : CallUpdateSelectedModel(c, model_id)
    \/ Lock(c)
    \/ Mutate(c)
    \/ \E outcome \in WriteOutcomes : Persist(c, outcome)
    \/ Return(c)

StoreStep ==
    \/ \E c \in Callers : StoreStepOf(c)
    \/ \E outcome \in WriteOutcomes : Restart(outcome)

\* LlmState::initialize: LlmStore::load, which writes back what it loaded
StoreInitFrom(files) ==
    /\ \E file \in files :
        /\ config = LoadConfig(file)
        /\ disk = File(Serialize(LoadConfig(file)))
    /\ lock = <<>>
    /\ cpc = [c \in Callers |-> "idle"]
    /\ cop = [c \in Callers |-> NoOp]
    /\ cres = [c \in Callers |-> NoResult]
    /\ ccalls = [c \in Callers |-> 0]
    /\ boot = [status |-> "Ok", n |-> 1]
    /\ returned = NoResult
    /\ lpc = "idle"
    /\ larg = None
    /\ lcfg = NoEntry
    /\ lres = NoListing

StoreInit == StoreInitFrom(PriorFiles)

----------------------------------------------------------------------------
(* normalize as a function of its input *)

\* the characters of a base URL: whitespace, the slash, anything else
UrlChars == {" ", "/", "a"}
\* the characters of an api key or a model id
OptChars == {" ", "k"}

OptStrings == {None} \cup {Some(s) : s \in SeqsUpTo(OptChars, MaxOptLen)}

\* the configurations normalize is applied to
NormInputs ==
    {[active_provider |-> p,
      selected_model |-> m,
      providers |-> [vllm |-> Conn(u1, k1), ollama |-> Conn(u2, k2)]] :
        p \in LlmProvider, m \in OptStrings,
        u1 \in SeqsUpTo(UrlChars, MaxLen), k1 \in OptStrings,
        u2 \in SeqsUpTo(UrlChars, MaxLen), k2 \in {None, Some(<<"k", " ">>)}}

\* next.normalize()
NormalizeOnce ==
    /\ npc = "start"
    /\ nout' = Normalize(nin)
    /\ npc' = "once"
    /\ UNCHANGED <<nin, nout2>>
    /\ UNCHANGED <<storeVars, dlgVars, netVars, streamVars>>

\* normalize applied to an already normalised configuration, as LlmStore::load
\* does to a file that LlmStore::replace wrote
NormalizeTwice ==
    /\ npc = "once"
    /\ nout2' = Normalize(nout)
    /\ npc' = "twice"
    /\ UNCHANGED <<nin, nout>>
    /\ UNCHANGED <<storeVars, dlgVars, netVars, streamVars>>

NormInit ==
    /\ npc = "start"
    /\ nin \in NormInputs
    /\ nout = DefaultConfig
    /\ nout2 = DefaultConfig

NormOff ==
    /\ npc = "off"
    /\ nin = DefaultConfig
    /\ nout = DefaultConfig
    /\ nout2 = DefaultConfig

----------------------------------------------------------------------------
(* Canonical messages, tools and the provider's answers *)

ChatRole == {"System", "User", "Assistant", "Tool"}

\* the iteration bound of run_dialogue: `if iterations > 3 { break; }`
MaxIterations == 3

\* next_id: "{prefix}-{timestamp in microseconds}"
next_id(prefix) == <<prefix, clock>>

ChatMessage(id, role, content, tool_call_id) ==
    [id |-> id, role |-> role, content |-> content, tool_call_id |-> tool_call_id]

\* #[serde(rename_all = "lowercase")] of ChatRole, as OpenAiMessage::from and
\* OllamaMessage::from spell it
RoleTag(role) ==
    CASE role = "System" -> "system"
      [] role = "User" -> "user"
      [] role = "Assistant" -> "assistant"
      [] OTHER -> "tool"

\* OpenAiMessage::from / OllamaMessage::from
WireMessage(m) ==
    [role |-> RoleTag(m.role), content |-> m.content, tool_call_id |-> m.tool_call_id]

WireMessages(ms) == [i \in 1..Len(ms) |-> WireMessage(ms[i])]

\* available_tools: the names of the registry's descriptors
available_tools == <<"mock_echo">>

\* serde_json::Value of a tool call's arguments: an object (with or without a
\* string member "text") or a string (that does or does not encode an object)
ObjectValue(text) == [kind |-> "object", encodes |-> FALSE, text |-> text]
StringValue(encodes, text) == [kind |-> "string", encodes |-> encodes, text |-> text]

\* normalize_arguments
normalize_arguments(arguments) ==
    IF arguments.kind = "string" /\ arguments.encodes
    THEN ObjectValue(arguments.text)
    ELSE arguments

\* OpenAiToolCall as the provider sends it
WireToolCall(id, name, arguments) ==
    [id |-> id, name |-> name, arguments |-> arguments]

\* the closure of AssistantTurn::from_openai / from_ollama, for one call
ToolCall(call) ==
    [id |-> IF IsSome(call.id) THEN Unwrap(call.id) ELSE next_id("tool-call"),
     name |-> call.name,
     arguments |-> normalize_arguments(call.arguments)]

\* AssistantTurn::from_openai / AssistantTurn::from_ollama
AssistantTurn(message) ==
    [content |-> message.content,
     tool_calls |-> [i \in 1..Len(message.tool_calls) |-> ToolCall(message.tool_calls[i])]]

\* execute_tool answering an unregistered name with a result text instead of
\* Err(LlmError::Tool), so that the loop goes on
execute_toolReportsUnknown(call) ==
    IF call.name = "mock_echo"
    THEN Some(<<"Echo: ">> \o
              (IF call.arguments.kind = "object" /\ IsSome(call.arguments.text)
               THEN Unwrap(call.arguments.text) ELSE <<>>))
    ELSE Some(<<"Unknown tool">>)

\* execute_tool: <<>> is Err(LlmError::Tool), <<s>> is Ok(s)
execute_tool(call) ==
    IF call.name = "mock_echo"
    THEN Some(<<"Echo: ">> \o
              (IF call.arguments.kind = "object" /\ IsSome(call.arguments.text)
               THEN Unwrap(call.arguments.text) ELSE <<>>))
    ELSE None

\* the tool calls a provider sends
EchoX == WireToolCall(Some(<<"call", 1>>), "mock_echo", ObjectValue(Some(<<"x">>)))
EchoY == WireToolCall(None, "mock_echo", StringValue(TRUE, Some(<<"y">>)))
Bogus == WireToolCall(Some(<<"call", 3>>), "bogus", ObjectValue(None))

\* the message of a provider's chat response
ResponseMessages ==
    {[content |-> c, tool_calls |-> t] :
        c \in {None, Some(<<" ">>), Some(<<"o">>)},
        t \in {<<>>, <<EchoX>>, <<EchoY, EchoX>>, <<Bogus>>, <<EchoX, Bogus>>}}

\* what a chat request can end in: a decoded message, a transport failure
\* (connection, timeout, non-2xx, undecodable body) or an empty `choices`
HttpOutcomes ==
    {[kind |-> "message", message |-> m] : m \in ResponseMessages}
    \cup {[kind |-> k, message |-> [content |-> None, tool_calls |-> <<>>]] :
            k \in {"http_error", "no_choice"}}

\* histories a caller supplies (deserialised as they come, see ChatMessage)
HistOk ==
    << ChatMessage(<<"user", 0>>, "User", <<"q">>, None),
       ChatMessage(<<"assistant", 0>>, "Assistant", <<"r">>, None) >>
HistOdd ==
    << ChatMessage(<<"user", 0>>, "User", <<"q">>, Some(<<"call", 1>>)) >>
Histories == {<<>>, HistOk, HistOdd}

\* inputs a caller supplies
Inputs == {<<" ">>, <<" ", "h", " ">>}

NoTurn == [content |-> None, tool_calls |-> <<>>]
NoSnapshot == [provider |-> "Vllm", provider_config |-> default_for("Vllm"),
               model |-> <<>>]
NoRequest == [history |-> <<>>, input |-> <<>>]
NoReturn == [status |-> "none", messages |-> <<>>, error |-> ""]
OkMessages(ms) == [status |-> "Ok", messages |-> ms, error |-> ""]
Failure(e) == [status |-> "Err", messages |-> <<>>, error |-> e]

----------------------------------------------------------------------------
(* Chat requests *)

\* the endpoint chat_with_openai / stream_openai and chat_with_ollama /
\* stream_ollama post to
ChatPath(provider) ==
    IF provider = "Vllm" THEN "/v1/chat/completions" ELSE "/api/chat"

\* the credential the request carries: bearer_auth(key) in the OpenAI codec,
\* nothing in the Ollama codec
Bearer(provider, provider_config) ==
    IF provider = "Vllm" THEN provider_config.api_key ELSE None

\* the POST that chat_with_* (stream = FALSE) and stream_* (stream = TRUE) build
ChatRequest(sender, snapshot, messages, stream) ==
    [sender |-> sender,
     method |-> "POST",
     base_url |-> snapshot.provider_config.base_url,
     path |-> ChatPath(snapshot.provider),
     bearer |-> Bearer(snapshot.provider, snapshot.provider_config),
     model |-> snapshot.model,
     messages |-> WireMessages(messages),
     tools |-> available_tools,
     stream |-> stream]

\* (provider, provider_config, model) as run_dialogue and run_stream copy them
\* from state.current_config()
Snapshot(c) ==
    [provider |-> c.active_provider,
     provider_config |-> Unwrap(ProviderGet(c.providers, c.active_provider)),
     model |-> Unwrap(c.selected_model)]

\* the user message both entry points push onto the history
UserMessage(input) == ChatMessage(next_id("user"), "User", Trim(input), None)

----------------------------------------------------------------------------
(* list_models *)

\* provider.unwrap_or(guard.config.active_provider), with the override ignored
TargetProviderIgnoresOverride(provider, c) == c.active_provider

\* provider.unwrap_or(guard.config.active_provider)
TargetProvider(provider, c) ==
    IF IsSome(provider) THEN Unwrap(provider) ELSE c.active_provider

\* the listing endpoint of fetch_vllm_models / fetch_ollama_models
ModelsPath(provider) == IF provider = "Vllm" THEN "/v1/models" ELSE "/api/tags"

\* the GET that fetch_vllm_models / fetch_ollama_models build
ModelsRequest(entry) ==
    [sender |-> "list_models",
     method |-> "GET",
     base_url |-> entry.provider_config.base_url,
     path |-> ModelsPath(entry.provider),
     bearer |-> Bearer(entry.provider, entry.provider_config)]

\* one entry of a provider's listing: OpenAiModel {id} or OllamaTag {name,
\* details.parameter_size}
Tag(name, parameter_size) == [name |-> name, parameter_size |-> parameter_size]

\* format_ollama_label
format_ollama_label(tag) ==
    IF IsSome(tag.parameter_size)
    THEN <<tag.name, " · ", Unwrap(tag.parameter_size)>>
    ELSE <<tag.name>>

\* the LlmModel each fetch function maps a listing entry to
LlmModel(provider, tag) ==
    [id |-> <<tag.name>>,
     label |-> IF provider = "Vllm" THEN <<tag.name>> ELSE format_ollama_label(tag),
     provider |-> provider]

LlmModels(provider, tags) == [i \in 1..Len(tags) |-> LlmModel(provider, tags[i])]

\* what the GET can end in: a transport failure (connection, timeout, non-2xx,
\* malformed body) or a listing
Listings == {<<>>, <<Tag("m1", None)>>, <<Tag("m1", Some("4B")), Tag("m2", None)>>}
ListingOutcomes ==
    {[kind |-> "http_error", tags |-> <<>>]}
    \cup {[kind |-> "listing", tags |-> t] : t \in Listings}

OkModels(models) == [status |-> "Ok", models |-> models, error |-> ""]
ErrModels(e) == [status |-> "Err", models |-> <<>>, error |-> e]

\* list_models(provider) is entered
ListEnter(provider) ==
    /\ boot.status = "Ok"
    /\ lpc = "idle"
    /\ larg' = provider
    /\ lpc' = "lock"
    /\ UNCHANGED <<lcfg, lres>>
    /\ UNCHANGED <<config, disk, lock, cpc, cop, cres, ccalls, boot, returned>>
    /\ UNCHANGED <<dlgVars, netVars, streamVars, normVars>>

\* the block that holds the lock: the target provider and its entry are copied,
\* `ok_or(MissingProviderConfig)?`, and the guard is dropped
ListConfig ==
    /\ lpc = "lock"
    /\ lock = <<>>
    /\ LET provider_kind == TargetProvider(larg, config)
           entry == ProviderGet(config.providers, provider_kind)
       IN IF entry = None
          THEN /\ lres' = ErrModels("MissingProviderConfig")
               /\ lpc' = "done"
               /\ UNCHANGED lcfg
          ELSE /\ lcfg' = [provider |-> provider_kind, provider_config |-> Unwrap(entry)]
               /\ lpc' = "fetch"
               /\ UNCHANGED lres
    /\ lock' = GuardDropped("list_models")
    /\ UNCHANGED larg
    /\ UNCHANGED <<config, disk, cpc, cop, cres, ccalls, boot, returned>>
    /\ UNCHANGED <<dlgVars, netVars, streamVars, normVars>>

\* fetch_models: the GET leaves
ListSend ==
    /\ lpc = "fetch"
    /\ requests' = Append(requests, ModelsRequest(lcfg))
    /\ lpc' = "await"
    /\ UNCHANGED <<larg, lcfg, lres, clock>>
    /\ UNCHANGED <<config, disk, lock, cpc, cop, cres, ccalls, boot, returned>>
    /\ UNCHANGED <<dlgVars, streamVars, normVars>>

\* `request.send()?.error_for_status()?`, `response.json()?` and the mapping
\* of the listing to LlmModel values
ListReceive(outcome) ==
    /\ lpc = "await"
    /\ lres' = IF outcome.kind = "listing"
               THEN OkModels(LlmModels(lcfg.provider, outcome.tags))
               ELSE ErrModels("Request failed")
    /\ lpc' = "done"
    /\ UNCHANGED <<larg, lcfg>>
    /\ UNCHANGED <<config, disk, lock, cpc, cop, cres, ccalls, boot, returned>>
    /\ UNCHANGED <<dlgVars, netVars, streamVars, normVars>>

\* the `provider` arguments callers pass
Overrides == {None, Some("Vllm"), Some("Ollama")}

ListStep ==
    \/ \E provider \in Overrides : ListEnter(provider)
    \/ ListConfig
    \/ ListSend
    \/ \E outcome \in ListingOutcomes : ListReceive(outcome)

----------------------------------------------------------------------------
(* run_dialogue *)

\* the bound test off by one: a fifth request goes out
BoundReachedLate(n) == n > MaxIterations + 1

\* `if iterations > 3 { break; }`
BoundReached(n) == n > MaxIterations

\* the test with its negation lost: `if content.trim().is_empty()`
HasTextInverted(turn) == IsSome(turn.content) /\ Trim(Unwrap(turn.content)) = <<>>

\* the assistant message pushed for any content the response has, blank or not
AssistantMessagesUnchecked(turn) ==
    IF IsSome(turn.content)
    THEN <<ChatMessage(next_id("assistant"), "Assistant", Unwrap(turn.content), None)>>
    ELSE <<>>

\* the assistant message pushed for a response with non-blank content
HasText(turn) == IsSome(turn.content) /\ Trim(Unwrap(turn.content)) # <<>>
AssistantMessages(turn) ==
    IF HasText(turn)
    THEN <<ChatMessage(next_id("assistant"), "Assistant", Unwrap(turn.content), None)>>
    ELSE <<>>

\* the Tool message pushed for one executed call
ToolMessage(call) ==
    ChatMessage(next_id("tool"), "Tool", Unwrap(execute_tool(call)), Some(call.id))

\* the loop walking the calls from the last to the first (`.iter().rev()`)
ToolMessagesReversed(calls) ==
    [i \in 1..Len(calls) |-> ToolMessage(calls[Len(calls) + 1 - i])]

\* the `for call in pending.tool_calls.iter()` loop when every call succeeds
ToolMessages(calls) == [i \in 1..Len(calls) |-> ToolMessage(calls[i])]

\* some call of the loop makes `execute_tool(call)?` return
ToolFails(calls) == \E i \in 1..Len(calls) : execute_tool(calls[i]) = None

\* the user message pushed onto `appended` as well as onto `conversation`
DialogueResponseWithUser(messages) ==
    OkMessages(<<conversation[Len(dreq.history) + 1]>> \o messages)

\* Ok(DialogueResponse { messages: appended })
DialogueResponse(messages) == OkMessages(messages)

\* the bound treated as a failure of the turn
BoundResultIsError(messages) == Failure("Too many tool iterations")

\* `if iterations > 3 { break; }` falls through to the function's last
\* expression, Ok(DialogueResponse { messages: appended })
BoundResult(messages) == DialogueResponse(messages)

\* run_dialogue is entered; blank input is rejected at once
DlgEnter(history, input) ==
    /\ dpc = "idle"
    /\ dreq' = [history |-> history, input |-> input]
    /\ IF Trim(input) = <<>>
       THEN /\ dresult' = Failure("Message cannot be empty")
            /\ dpc' = "done"
       ELSE /\ dpc' = "config"
            /\ UNCHANGED dresult
    /\ UNCHANGED <<dcfg, conversation, appended, pending, iterations, responses, dreturned>>
    /\ UNCHANGED <<storeVars, netVars, streamVars, normVars>>

\* run_dialogue going on with an empty model name when none is selected
\* (`unwrap_or_default()` in place of `ok_or_else(..)?`)
DlgConfigDefaultModel ==
    /\ dpc = "config"
    /\ lock = <<>>
    /\ dcfg' = [provider |-> config.active_provider,
                provider_config |-> Unwrap(ProviderGet(config.providers,
                                                       config.active_provider)),
                model |-> IF IsSome(config.selected_model)
                          THEN Unwrap(config.selected_model) ELSE <<>>]
    /\ conversation' = Append(dreq.history, UserMessage(dreq.input))
    /\ dpc' = "send"
    /\ lock' = GuardDropped("run_dialogue")
    /\ UNCHANGED <<dreq, dresult, appended, pending, iterations, responses, dreturned>>
    /\ UNCHANGED <<storeRest, netVars, streamVars, normVars>>

\* state.current_config() under the lock, the model and provider checks, and
\* the push of the user message
DlgConfig ==
    /\ dpc = "config"
    /\ lock = <<>>
    /\ IF config.selected_model = None
       THEN /\ dresult' = Failure("Select a model before chatting")
            /\ dpc' = "done"
            /\ UNCHANGED <<dcfg, conversation>>
       ELSE /\ dcfg' = Snapshot(config)
            /\ conversation' = Append(dreq.history, UserMessage(dreq.input))
            /\ dpc' = "send"
            /\ UNCHANGED dresult
    /\ lock' = GuardDropped("run_dialogue")
    /\ UNCHANGED <<dreq, appended, pending, iterations, responses, dreturned>>
    /\ UNCHANGED <<storeRest, netVars, streamVars, normVars>>

\* only the newest message of the conversation is sent
DlgSendLastOnly ==
    /\ dpc = "send"
    /\ requests' = Append(requests,
                          ChatRequest("dialogue", dcfg,
                                      <<conversation[Len(conversation)]>>, FALSE))
    /\ dpc' = "await"
    /\ UNCHANGED <<dreq, dcfg, conversation, appended, pending, iterations,
                   dresult, responses, dreturned, clock>>
    /\ UNCHANGED <<storeVars, streamVars, normVars>>

\* each round trip reading state.current_config() afresh in place of the
\* values copied at the start of the turn
DlgSendRereadsConfig ==
    /\ dpc = "send"
    /\ lock = <<>>
    /\ requests' = Append(requests,
                          ChatRequest("dialogue", Snapshot(config), conversation, FALSE))
    /\ dpc' = "await"
    /\ UNCHANGED <<dreq, dcfg, conversation, appended, pending, iterations,
                   dresult, responses, dreturned, clock>>
    /\ UNCHANGED <<storeVars, streamVars, normVars>>

\* send_chat_completion: the request leaves
DlgSend ==
    /\ dpc = "send"
    /\ requests' = Append(requests, ChatRequest("dialogue", dcfg, conversation, FALSE))
    /\ dpc' = "await"
    /\ UNCHANGED <<dreq, dcfg, conversation, appended, pending, iterations,
                   dresult, responses, clock, dreturned>>
    /\ UNCHANGED <<storeVars, streamVars, normVars>>

\* send_chat_completion returns: `?` on failure, else the AssistantTurn
DlgReceive(outcome) ==
    /\ dpc = "await"
    /\ IF outcome.kind = "message"
       THEN /\ pending' = AssistantTurn(outcome.message)
            /\ responses' = Append(responses, outcome.message)
            /\ dpc' = "loop"
            /\ UNCHANGED dresult
       ELSE /\ dresult' = Failure(IF outcome.kind = "http_error"
                                  THEN "Request failed"
                                  ELSE "No response from provider")
            /\ dpc' = "done"
            /\ UNCHANGED <<pending, responses>>
    /\ UNCHANGED <<dreq, dcfg, conversation, appended, iterations, dreturned>>
    /\ UNCHANGED <<storeVars, netVars, streamVars, normVars>>

\* one pass of the `loop` body, up to its break, its `?` or the next request
DlgLoop ==
    /\ dpc = "loop"
    /\ LET said == AssistantMessages(pending)
           calls == pending.tool_calls
       IN IF calls = <<>>
          THEN /\ conversation' = conversation \o said
               /\ appended' = appended \o said
               /\ dresult' = DialogueResponse(appended \o said)
               /\ dpc' = "done"
               /\ UNCHANGED iterations
          ELSE IF ToolFails(calls)
          THEN /\ dresult' = Failure("Unknown tool")
               /\ dpc' = "done"
               /\ UNCHANGED <<conversation, appended, iterations>>
          ELSE /\ conversation' = conversation \o said \o ToolMessages(calls)
               /\ appended' = appended \o said \o ToolMessages(calls)
               /\ iterations' = iterations + 1
               /\ IF BoundReached(iterations + 1)
                  THEN /\ dresult' = BoundResult(appended \o said \o ToolMessages(calls))
                       /\ dpc' = "done"
                  ELSE /\ dpc' = "send"
                       /\ UNCHANGED dresult
    /\ pending' = [pending EXCEPT !.content = None]
    /\ UNCHANGED <<dreq, dcfg, responses, dreturned>>
    /\ UNCHANGED <<storeVars, netVars, streamVars, normVars>>

\* the call has returned and the frontend calls run_dialogue again: the locals
\* of the returned call are gone, its result stays with the caller
DlgReturn ==
    /\ dpc = "done"
    /\ Len(dreturned) + 1 < MaxTurns
    /\ dreturned' = Append(dreturned,
                           [result |-> dresult,
                            sent |-> Len(SelectSeq(requests,
                                                   LAMBDA q : q.sender = "dialogue"))])
    /\ dpc' = "idle"
    /\ dreq' = NoRequest
    /\ dcfg' = NoSnapshot
    /\ conversation' = <<>>
    /\ appended' = <<>>
    /\ pending' = NoTurn
    /\ iterations' = 0
    /\ dresult' = NoReturn
    /\ responses' = <<>>
    /\ UNCHANGED <<storeVars, netVars, streamVars, normVars>>

DlgStep ==
    \/ \E history \in Histories, input \in Inputs : DlgEnter(history, input)
    \/ DlgConfig
    \/ DlgSend
    \/ \E outcome \in HttpOutcomes : DlgReceive(outcome)
    \/ DlgLoop

DlgInit ==
    /\ dpc = "idle"
    /\ dreq = NoRequest
    /\ dcfg = NoSnapshot
    /\ conversation = <<>>
    /\ appended = <<>>
    /\ pending = NoTurn
    /\ iterations = 0
    /\ dresult = NoReturn
    /\ responses = <<>>
    /\ dreturned = <<>>

DlgOff ==
    /\ dpc = "off"
    /\ dreq = NoRequest
    /\ dcfg = NoSnapshot
    /\ conversation = <<>>
    /\ appended = <<>>
    /\ pending = NoTurn
    /\ iterations = 0
    /\ dresult = NoReturn
    /\ responses = <<>>
    /\ dreturned = <<>>

NetInit ==
    /\ requests = <<>>
    /\ clock = 0

\* SystemTime::now() moves on by a microsecond between two steps of the
\* program; the next_id calls of one step are consecutive statements and read
\* the same microsecond
Tick ==
    /\ clock < MaxClock
    /\ clock' = clock + 1
    /\ UNCHANGED requests
    /\ UNCHANGED <<storeVars, dlgVars, streamVars, normVars>>

----------------------------------------------------------------------------
(* Streamed response bodies *)

\* The text of a body line after its markers: nothing, the literal [DONE], a
\* JSON object, or text that is no JSON.  Of a JSON object the model keeps the
\* members the two chunk types read: `choices` (each choice's delta.content),
\* `message` (its content) and `done`, and the tool calls the object carries
\* (in a delta or in `message`), which neither chunk type's reader looks at.
Payload(kind, has_choices, choices, has_message, content, done) ==
    [kind |-> kind, has_choices |-> has_choices, choices |-> choices,
     has_message |-> has_message, content |-> content, done |-> done,
     tool_calls |-> <<>>]

EmptyPayload == Payload("empty", FALSE, <<>>, FALSE, None, None)
DonePayload == Payload("[DONE]", FALSE, <<>>, FALSE, None, None)
JunkPayload == Payload("junk", FALSE, <<>>, FALSE, None, None)
\* {"choices":[{"delta":{"content":...}}, ...]}
OpenAiChunk(choices) == Payload("json", TRUE, choices, FALSE, None, None)
\* {"message":{"role":"assistant","content":...},"done":...}
OllamaChunk(content, done) == Payload("json", FALSE, <<>>, TRUE, content, done)

\* A body line: surrounding whitespace, leading `data:` markers, the payload
Line(padded, markers, payload) ==
    [padded |-> padded, markers |-> markers, payload |-> payload]

BlankLine == Line(FALSE, 0, EmptyPayload)
JunkLine == Line(FALSE, 1, JunkPayload)
DataDone == Line(TRUE, 1, DonePayload)
DataChunk(text) == Line(text # <<"a">>, 1, OpenAiChunk(<<Some(text)>>))
DataChunkNoText == Line(FALSE, 1, OpenAiChunk(<<None, Some(<<>>)>>))
NdChunk(text) == Line(FALSE, 0, OllamaChunk(Some(text), Some(FALSE)))
NdDone == Line(FALSE, 0, OllamaChunk(Some(<<>>), Some(TRUE)))
NdDoneText == Line(FALSE, 0, OllamaChunk(Some(<<"b">>), Some(TRUE)))
NdBare == Line(TRUE, 0, Payload("json", FALSE, <<>>, FALSE, None, None))
\* chunks that carry a tool call and no text
DataToolCall == Line(FALSE, 1, [OpenAiChunk(<<None>>) EXCEPT !.tool_calls = <<EchoX>>])
NdToolCall ==
    Line(FALSE, 0, [OllamaChunk(Some(<<>>), Some(FALSE)) EXCEPT !.tool_calls = <<EchoX>>])

\* the deltas a provider streams
Deltas == {<<"a">>, <<"b">>}

\* the lines each kind of provider serves
Lines(provider) ==
    IF provider = "Vllm"
    THEN {BlankLine, JunkLine, DataDone, DataChunkNoText, DataToolCall}
         \cup {DataChunk(d) : d \in Deltas}
    ELSE {BlankLine, JunkLine, NdDone, NdDoneText, NdBare, NdToolCall}
         \cup {NdChunk(d) : d \in Deltas}

Bodies(provider) == SeqsUpTo(Lines(provider), MaxLines)

\* line.trim().is_empty()
IsBlank(line) == line.markers = 0 /\ line.payload.kind = "empty"

\* serde_json::from_str::<OpenAiStreamChunk> succeeds: `choices` is required
DecodesOpenAi(payload) == payload.kind = "json" /\ payload.has_choices

\* serde_json::from_str::<OllamaStreamChunk> succeeds: every member is optional
DecodesOllama(line) == line.markers = 0 /\ line.payload.kind = "json"

RECURSIVE NonEmpty(_)
\* the options of a list that are Some of a non-empty string, unwrapped, in order
NonEmpty(options) ==
    IF options = <<>> THEN <<>>
    ELSE (IF IsSome(Head(options)) /\ Unwrap(Head(options)) # <<>>
          THEN <<Unwrap(Head(options))>> ELSE <<>>) \o NonEmpty(Tail(options))

\* What one pass of a codec's `while` body does with a line: the deltas it
\* emits as Answer, and how the pass ends ("continue", "done" after emitting
\* Done and `break`, "fail" on `?`)
Pass(deltas, end) == [deltas |-> deltas, end |-> end]

\* stream_openai treating [DONE] as one more separator: no Done, no break
OpenAiPassIgnoresDone(line) ==
    CASE IsBlank(line) -> Pass(<<>>, "continue")
      [] ~IsBlank(line) /\ line.payload.kind = "[DONE]" -> Pass(<<>>, "continue")
      [] ~IsBlank(line) /\ DecodesOpenAi(line.payload) ->
            Pass(NonEmpty(line.payload.choices), "continue")
      [] OTHER -> Pass(<<>>, "fail")

\* stream_openai skipping a chunk it cannot decode instead of returning Err
OpenAiPassSkipsBadChunk(line) ==
    CASE IsBlank(line) -> Pass(<<>>, "continue")
      [] ~IsBlank(line) /\ line.payload.kind = "[DONE]" -> Pass(<<>>, "done")
      [] ~IsBlank(line) /\ DecodesOpenAi(line.payload) ->
            Pass(NonEmpty(line.payload.choices), "continue")
      [] OTHER -> Pass(<<>>, "continue")

\* the body of stream_openai's loop
OpenAiPass(line) ==
    CASE IsBlank(line) -> Pass(<<>>, "continue")
      [] ~IsBlank(line) /\ line.payload.kind = "[DONE]" -> Pass(<<>>, "done")
      [] ~IsBlank(line) /\ DecodesOpenAi(line.payload) ->
            Pass(NonEmpty(line.payload.choices), "continue")
      [] OTHER -> Pass(<<>>, "fail")

\* stream_ollama waiting for a sentinel: done:true neither emits Done nor breaks
OllamaPassIgnoresDone(line) ==
    CASE IsBlank(line) -> Pass(<<>>, "continue")
      [] ~IsBlank(line) /\ DecodesOllama(line) ->
            Pass(IF line.payload.has_message THEN NonEmpty(<<line.payload.content>>)
                 ELSE <<>>,
                 "continue")
      [] OTHER -> Pass(<<>>, "fail")

\* stream_ollama testing `done` before it looks at the message: the text of
\* the closing line is lost
OllamaPassDoneFirst(line) ==
    CASE IsBlank(line) -> Pass(<<>>, "continue")
      [] ~IsBlank(line) /\ DecodesOllama(line) ->
            IF line.payload.done = Some(TRUE) THEN Pass(<<>>, "done")
            ELSE Pass(IF line.payload.has_message
                      THEN NonEmpty(<<line.payload.content>>) ELSE <<>>,
                      "continue")
      [] OTHER -> Pass(<<>>, "fail")

\* the body of stream_ollama's loop
OllamaPass(line) ==
    CASE IsBlank(line) -> Pass(<<>>, "continue")
      [] ~IsBlank(line) /\ DecodesOllama(line) ->
            Pass(IF line.payload.has_message THEN NonEmpty(<<line.payload.content>>)
                 ELSE <<>>,
                 IF line.payload.done = Some(TRUE) THEN "done" ELSE "continue")
      [] OTHER -> Pass(<<>>, "fail")

\* ProviderAdapter::stream: the codec by provider
CodecPass(provider, line) ==
    IF provider = "Vllm" THEN OpenAiPass(line) ELSE OllamaPass(line)

\* StreamEvent
Answer(request_id, delta) ==
    [type |-> "answer", request_id |-> request_id, delta |-> delta, message |-> ""]
Done(request_id) ==
    [type |-> "done", request_id |-> request_id, delta |-> <<>>, message |-> ""]
Error(request_id, message) ==
    [type |-> "error", request_id |-> request_id, delta |-> <<>>, message |-> message]

Answers(request_id, deltas) == [i \in 1..Len(deltas) |-> Answer(request_id, deltas[i])]

\* the worker closure emitting its Error whenever the codec has returned, Ok
\* or Err: a stream that ended with Done gets an Error after it
PassEventsErrorAfterDone(request_id, pass) ==
    Answers(request_id, pass.deltas)
    \o (CASE pass.end = "done" ->
                <<Done(request_id), Error(request_id, "Invalid configuration")>>
          [] pass.end = "fail" -> <<Error(request_id, "Invalid configuration")>>
          [] OTHER -> <<>>)

\* the events one pass puts on the channel, the Error of run_stream's worker
\* closure included
PassEvents(request_id, pass) ==
    Answers(request_id, pass.deltas)
    \o (CASE pass.end = "done" -> <<Done(request_id)>>
          [] pass.end = "fail" -> <<Error(request_id, "Invalid configuration")>>
          [] OTHER -> <<>>)

RECURSIVE Emitted(_, _, _)
\* every event a codec and the worker closure emit for a body that is read
\* without an I/O failure
Emitted(provider, body, request_id) ==
    IF body = <<>> THEN <<>>
    ELSE LET pass == CodecPass(provider, Head(body))
         IN PassEvents(request_id, pass)
            \o (IF pass.end = "continue"
                THEN Emitted(provider, Tail(body), request_id)
                ELSE <<>>)

----------------------------------------------------------------------------
(* run_stream and its worker *)

\* the request ids callers supply
RequestIds == {"req-1", "req-2"}

EventsOf(request_id) == SelectSeq(events, LAMBDA e : e.request_id = request_id)

\* run_stream testing `input.is_empty()` in place of `trimmed.is_empty()`
StreamEnterEmptyOnly(r, history, input) ==
    /\ spc[r] = "idle"
    /\ sreq' = [sreq EXCEPT ![r] = [history |-> history, input |-> input]]
    /\ IF input = <<>>
       THEN /\ sres' = [sres EXCEPT ![r] = Failure("Message cannot be empty")]
            /\ spc' = [spc EXCEPT ![r] = "rejected"]
       ELSE /\ spc' = [spc EXCEPT ![r] = "config"]
            /\ UNCHANGED sres
    /\ UNCHANGED <<sconv, scfg, sbody, spos, events>>
    /\ UNCHANGED <<storeVars, dlgVars, netVars, normVars>>

\* run_stream is entered; blank input is rejected at once
StreamEnter(r, history, input) ==
    /\ spc[r] = "idle"
    /\ sreq' = [sreq EXCEPT ![r] = [history |-> history, input |-> input]]
    /\ IF Trim(input) = <<>>
       THEN /\ sres' = [sres EXCEPT ![r] = Failure("Message cannot be empty")]
            /\ spc' = [spc EXCEPT ![r] = "rejected"]
       ELSE /\ spc' = [spc EXCEPT ![r] = "config"]
            /\ UNCHANGED sres
    /\ UNCHANGED <<sconv, scfg, sbody, spos, events>>
    /\ UNCHANGED <<storeVars, dlgVars, netVars, normVars>>

\* state.current_config() under the lock, the model and provider checks, the
\* push of the user message and spawn_blocking; run_stream returns Ok(())
StreamConfig(r) ==
    /\ spc[r] = "config"
    /\ lock = <<>>
    /\ IF config.selected_model = None
       THEN /\ sres' = [sres EXCEPT ![r] = Failure("Select a model before chatting")]
            /\ spc' = [spc EXCEPT ![r] = "rejected"]
            /\ UNCHANGED <<scfg, sconv>>
       ELSE /\ scfg' = [scfg EXCEPT ![r] = Snapshot(config)]
            /\ sconv' = [sconv EXCEPT ![r] =
                            Append(sreq[r].history, UserMessage(sreq[r].input))]
            /\ sres' = [sres EXCEPT ![r] = OkMessages(<<>>)]
            /\ spc' = [spc EXCEPT ![r] = "spawned"]
    /\ lock' = GuardDropped("run_stream")
    /\ UNCHANGED <<sreq, sbody, spos, events>>
    /\ UNCHANGED <<storeRest, dlgVars, netVars, normVars>>

\* the worker closure dropping the result of stream_chat: a failed send goes
\* unreported
StreamSendSilent(r, ok, body) ==
    /\ spc[r] = "spawned"
    /\ requests' = Append(requests, ChatRequest(r, scfg[r], sconv[r], TRUE))
    /\ IF ok
       THEN /\ sbody' = [sbody EXCEPT ![r] = body]
            /\ spc' = [spc EXCEPT ![r] = "reading"]
       ELSE /\ spc' = [spc EXCEPT ![r] = "finished"]
            /\ UNCHANGED sbody
    /\ UNCHANGED <<sreq, sconv, scfg, spos, sres, events, clock>>
    /\ UNCHANGED <<storeVars, dlgVars, normVars>>

\* the worker posts the request: `request.send()?.error_for_status()?` fails
\* (and the closure emits Error), or the provider starts serving a body
StreamSend(r, ok, body) ==
    /\ spc[r] = "spawned"
    /\ requests' = Append(requests, ChatRequest(r, scfg[r], sconv[r], TRUE))
    /\ IF ok
       THEN /\ sbody' = [sbody EXCEPT ![r] = body]
            /\ spc' = [spc EXCEPT ![r] = "reading"]
            /\ UNCHANGED events
       ELSE /\ events' = Append(events, Error(r, "Request failed"))
            /\ spc' = [spc EXCEPT ![r] = "finished"]
            /\ UNCHANGED sbody
    /\ UNCHANGED <<sreq, sconv, scfg, spos, sres, clock>>
    /\ UNCHANGED <<storeVars, dlgVars, normVars>>

\* reader.read_line(&mut line)? fails: the codec returns Err, the closure
\* emits Error
StreamReadFails(r) ==
    /\ spc[r] = "reading"
    /\ events' = Append(events, Error(r, "I/O error"))
    /\ spc' = [spc EXCEPT ![r] = "finished"]
    /\ UNCHANGED <<sreq, sconv, scfg, sbody, spos, sres>>
    /\ UNCHANGED <<storeVars, dlgVars, netVars, normVars>>

\* reader.read_line(&mut line)? returns 0 at the end of the body: the loop
\* ends and the codec returns Ok(())
StreamEof(r) ==
    /\ spc[r] = "reading"
    /\ spos[r] = Len(sbody[r])
    /\ spc' = [spc EXCEPT ![r] = "finished"]
    /\ UNCHANGED <<sreq, sconv, scfg, sbody, spos, sres, events>>
    /\ UNCHANGED <<storeVars, dlgVars, netVars, normVars>>

\* the loop body executing the tool calls of a chunk and posting their results
\* in a second request, as run_dialogue does
StreamLineFollowsUp(r) ==
    /\ spc[r] = "reading"
    /\ spos[r] < Len(sbody[r])
    /\ LET line == sbody[r][spos[r] + 1]
           pass == CodecPass(scfg[r].provider, line)
           calls == [i \in 1..Len(line.payload.tool_calls) |->
                        ToolCall(line.payload.tool_calls[i])]
       IN /\ events' = events \o PassEvents(r, pass)
          /\ spc' = [spc EXCEPT ![r] = IF pass.end = "continue" THEN "reading"
                                       ELSE "finished"]
          /\ requests' = IF pass.end # "fail" /\ calls # <<>>
                         THEN Append(requests,
                                     ChatRequest(r, scfg[r],
                                                 sconv[r] \o ToolMessages(calls), TRUE))
                         ELSE requests
    /\ spos' = [spos EXCEPT ![r] = @ + 1]
    /\ UNCHANGED <<sreq, sconv, scfg, sbody, sres, clock>>
    /\ UNCHANGED <<storeVars, dlgVars, normVars>>

\* the workers reading through one shared reader: each takes its next line
\* from the body served to the first stream
StreamLineSharedBuffer(r) ==
    /\ spc[r] = "reading"
    /\ spos[r] < Len(sbody["req-1"])
    /\ LET pass == CodecPass(scfg[r].provider, sbody["req-1"][spos[r] + 1])
       IN /\ events' = events \o PassEvents(r, pass)
          /\ spc' = [spc EXCEPT ![r] = IF pass.end = "continue" THEN "reading"
                                       ELSE "finished"]
    /\ spos' = [spos EXCEPT ![r] = @ + 1]
    /\ UNCHANGED <<sreq, sconv, scfg, sbody, sres>>
    /\ UNCHANGED <<storeVars, dlgVars, netVars, normVars>>

\* reader.read_line(&mut line)? returns a line and the loop body runs on it
StreamLine(r) ==
    /\ spc[r] = "reading"
    /\ spos[r] < Len(sbody[r])
    /\ LET pass == CodecPass(scfg[r].provider, sbody[r][spos[r] + 1])
       IN /\ events' = events \o PassEvents(r, pass)
          /\ spc' = [spc EXCEPT ![r] = IF pass.end = "continue" THEN "reading"
                                       ELSE "finished"]
    /\ spos' = [spos EXCEPT ![r] = @ + 1]
    /\ UNCHANGED <<sreq, sconv, scfg, sbody, sres>>
    /\ UNCHANGED <<storeVars, dlgVars, netVars, normVars>>

\* histories and inputs of the streaming entry point
StreamHistories == {<<>>, HistOk}

StreamStep(r) ==
    \/ \E history \in StreamHistories, input \in Inputs : StreamEnter(r, history, input)
    \/ StreamConfig(r)
    \/ spc[r] = "spawned" /\ \E body \in Bodies(scfg[r].provider) : StreamSend(r, TRUE, body)
    \/ StreamSend(r, FALSE, <<>>)
    \/ StreamReadFails(r)
    \/ StreamEof(r)
    \/ StreamLine(r)

StreamInit ==
    /\ spc = [r \in RequestIds |-> "idle"]
    /\ sreq = [r \in RequestIds |-> NoRequest]
    /\ sconv = [r \in RequestIds |-> <<>>]
    /\ scfg = [r \in RequestIds |-> NoSnapshot]
    /\ sbody = [r \in RequestIds |-> <<>>]
    /\ spos = [r \in RequestIds |-> 0]
    /\ sres = [r \in RequestIds |-> NoReturn]
    /\ events = <<>>

StreamOff ==
    /\ spc = [r \in RequestIds |-> "off"]
    /\ sreq = [r \in RequestIds |-> NoRequest]
    /\ sconv = [r \in RequestIds |-> <<>>]
    /\ scfg = [r \in RequestIds |-> NoSnapshot]
    /\ sbody = [r \in RequestIds |-> <<>>]
    /\ spos = [r \in RequestIds |-> 0]
    /\ sres = [r \in RequestIds |-> NoReturn]
    /\ events = <<>>

----------------------------------------------------------------------------
(* Specifications *)

\* The configuration store under concurrent callers
StoreOnlyInit == StoreInit /\ DlgOff /\ NetInit /\ StreamOff /\ NormOff
StoreNext == StoreStep
SpecStore == StoreOnlyInit /\ [][StoreNext]_vars

\* list_models beside one caller of the configuration store
ModelsNext == StoreStepOf("c1") \/ ListStep
SpecModels == StoreOnlyInit /\ [][ModelsNext]_vars

\* One non-streaming turn against an arbitrary provider
DialogueInit == StoreInit /\ DlgInit /\ NetInit /\ StreamOff /\ NormOff
DialogueNext == DlgStep
SpecDialogue == DialogueInit /\ [][DialogueNext]_vars

\* One streaming turn against an arbitrary provider
OneStreamInit == StoreInit /\ DlgOff /\ NetInit /\ StreamInit /\ NormOff
OneStreamNext == StreamStep("req-1")
SpecStream == OneStreamInit /\ [][OneStreamNext]_vars

\* A non-streaming and a streaming turn side by side while the clock runs,
\* with and without a selected model
TurnFiles == {NoFile, File(Serialize(CandA))}
TurnOutcomes ==
    {[kind |-> "message", message |-> [content |-> Some(<<"o">>), tool_calls |-> <<>>]],
     [kind |-> "message",
      message |-> [content |-> Some(<<"o">>), tool_calls |-> <<EchoY, EchoY>>]],
     [kind |-> "http_error", message |-> [content |-> None, tool_calls |-> <<>>]]}
TurnBodies == {<<DataChunk(<<"a">>), DataDone>>, <<DataChunk(<<"b">>)>>}
TurnsInit == StoreInitFrom(TurnFiles) /\ DlgInit /\ NetInit /\ StreamInit /\ NormOff
TurnsNext ==
    \/ \E history \in Histories, input \in Inputs : DlgEnter(history, input)
    \/ DlgConfig
    \/ DlgSend
    \/ \E outcome \in TurnOutcomes : DlgReceive(outcome)
    \/ DlgLoop
    \/ \E history \in StreamHistories, input \in Inputs :
            StreamEnter("req-1", history, input)
    \/ StreamConfig("req-1")
    \/ \E body \in TurnBodies : StreamSend("req-1", TRUE, body)
    \/ StreamSend("req-1", FALSE, <<>>)
    \/ StreamReadFails("req-1")
    \/ StreamEof("req-1")
    \/ StreamLine("req-1")
    \/ Tick
SpecTurns == TurnsInit /\ [][TurnsNext]_vars

\* normalize applied once and twice to arbitrary configurations
NormalizeInit == StoreInitFrom({NoFile}) /\ DlgOff /\ NetInit /\ StreamOff /\ NormInit
NormalizeNext == NormalizeOnce \/ NormalizeTwice
SpecNormalize == NormalizeInit /\ [][NormalizeNext]_vars

\* One caller of the configuration store beside list_models, a non-streaming
\* turn and a streaming turn, all on the same LlmState
SharedOutcomes ==
    {[kind |-> "message", message |-> [content |-> Some(<<"o">>), tool_calls |-> <<>>]],
     [kind |-> "http_error", message |-> [content |-> None, tool_calls |-> <<>>]]}
SharedListings == {[kind |-> "listing", tags |-> <<Tag("m1", None)>>]}
SharedBodies == {<<DataDone>>, <<DataChunk(<<"a">>)>>}
SharedInit ==
    StoreInitFrom({File(Serialize(CandA))}) /\ DlgInit /\ NetInit /\ StreamInit /\ NormOff
SharedNext ==
    \/ CallPersistConfig("c1", CandB)
    \/ CallUpdateSelectedModel("c1", Some(<<"n", " ">>))
    \/ Lock("c1")
    \/ Mutate("c1")
    \/ \E outcome \in WriteOutcomes : Persist("c1", outcome)
    \/ Return("c1")
    \/ ListEnter(None)
    \/ ListConfig
    \/ ListSend
    \/ \E outcome \in SharedListings : ListReceive(outcome)
    \/ DlgEnter(<<>>, <<" ", "h", " ">>)
    \/ DlgConfig
    \/ DlgSend
    \/ \E outcome \in SharedOutcomes : DlgReceive(outcome)
    \/ DlgLoop
    \/ StreamEnter("req-1", <<>>, <<" ", "h", " ">>)
    \/ StreamConfig("req-1")
    \/ \E body \in SharedBodies : StreamSend("req-1", TRUE, body)
    \/ StreamSend("req-1", FALSE, <<>>)
    \/ StreamReadFails("req-1")
    \/ StreamEof("req-1")
    \/ StreamLine("req-1")
SpecShared == SharedInit /\ [][SharedNext]_vars

\* run_dialogue called again after it returned, against a provider that may
\* name a tool the registry does not have
RetryOutcomes ==
    {[kind |-> "message", message |-> [content |-> Some(<<"o">>), tool_calls |-> t]] :
        t \in {<<>>, <<EchoX>>, <<EchoX, Bogus>>}}
    \cup {[kind |-> "http_error", message |-> [content |-> None, tool_calls |-> <<>>]]}
RetryInit ==
    StoreInitFrom({File(Serialize(CandA))}) /\ DlgInit /\ NetInit /\ StreamOff /\ NormOff
RetryNext ==
    \/ \E history \in {<<>>, HistOk} : DlgEnter(history, <<" ", "h", " ">>)
    \/ DlgConfig
    \/ DlgSend
    \/ \E outcome \in RetryOutcomes : DlgReceive(outcome)
    \/ DlgLoop
    \/ DlgReturn
SpecRetry == RetryInit /\ [][RetryNext]_vars

\* Two streaming turns with distinct request ids side by side
PairFiles == {File(Serialize(CandA)), File(Serialize(CandB))}
PairBodies(provider) ==
    IF provider = "Vllm"
    THEN {<<DataChunk(<<"a">>), DataDone>>, <<DataChunk(<<"b">>), JunkLine>>,
          <<DataChunk(<<"b">>)>>}
    ELSE {<<NdChunk(<<"a">>), NdDoneText>>, <<NdChunk(<<"b">>), JunkLine>>,
          <<NdChunk(<<"b">>)>>}
PairStep(r) ==
    \/ \E history \in StreamHistories : StreamEnter(r, history, <<" ", "h", " ">>)
    \/ StreamConfig(r)
    \/ spc[r] = "spawned"
        /\ \E body \in PairBodies(scfg[r].provider) : StreamSend(r, TRUE, body)
    \/ StreamSend(r, FALSE, <<>>)
    \/ StreamReadFails(r)
    \/ StreamEof(r)
    \/ StreamLine(r)
PairInit == StoreInitFrom(PairFiles) /\ DlgOff /\ NetInit /\ StreamInit /\ NormOff
PairNext == PairStep("req-1") \/ PairStep("req-2")
SpecPair == PairInit /\ [][PairNext]_vars

\* A turn of several round trips beside one caller of the configuration store
DriftOutcomes ==
    {[kind |-> "message", message |-> [content |-> Some(<<"o">>), tool_calls |-> t]] :
        t \in {<<>>, <<EchoX>>}}
    \cup {[kind |-> "http_error", message |-> [content |-> None, tool_calls |-> <<>>]]}
DriftInit ==
    StoreInitFrom({File(Serialize(CandA))}) /\ DlgInit /\ NetInit /\ StreamOff /\ NormOff
DriftNext ==
    \/ CallPersistConfig("c1", CandB)
    \/ CallUpdateSelectedModel("c1", Some(<<"n", " ">>))
    \/ Lock("c1")
    \/ Mutate("c1")
    \/ \E outcome \in WriteOutcomes : Persist("c1", outcome)
    \/ Return("c1")
    \/ \E history \in {<<>>, HistOk} : DlgEnter(history, <<" ", "h", " ">>)
    \/ DlgConfig
    \/ DlgSend
    \/ \E outcome \in DriftOutcomes : DlgReceive(outcome)
    \/ DlgLoop
SpecDrift == DriftInit /\ [][DriftNext]_vars

\* One turn against a provider whose content is absent, empty, blank or text
ContentMessages ==
    {[content |-> c, tool_calls |-> t] :
        c \in {None, Some(<<>>), Some(<<" ">>), Some(<<" ", "o">>), Some(<<"o">>)},
        t \in {<<>>, <<EchoX>>}}
ContentOutcomes ==
    {[kind |-> "message", message |-> m] : m \in ContentMessages}
    \cup {[kind |-> "http_error", message |-> [content |-> None, tool_calls |-> <<>>]]}
ContentNext ==
    \/ \E history \in Histories : DlgEnter(history, <<" ", "h", " ">>)
    \/ DlgConfig
    \/ DlgSend
    \/ \E outcome \in ContentOutcomes : DlgReceive(outcome)
    \/ DlgLoop
SpecContent == RetryInit /\ [][ContentNext]_vars

Init == DialogueInit
Next == DialogueNext
Spec == SpecDialogue

----------------------------------------------------------------------------
(* Properties of run_dialogue *)

IsPrefix(s, t) == Len(s) <= Len(t) /\ SubSeq(t, 1, Len(s)) = s

\* the chat requests the turn has sent
DialogueRequests == SelectSeq(requests, LAMBDA q : q.sender = "dialogue")

\* every request of the turn was answered, each answer with at least one tool
\* call, every call naming a registered tool
ProviderLoops ==
    /\ responses # <<>>
    /\ Len(responses) = Len(DialogueRequests)
    /\ \A i \in 1..Len(responses) :
        /\ responses[i].tool_calls # <<>>
        /\ \A j \in 1..Len(responses[i].tool_calls) :
            responses[i].tool_calls[j].name \in {available_tools[k] : k \in 1..Len(available_tools)}

\* C1: run_dialogue never sends a 5th chat request and is never stuck before it
\* returns; against a provider that answers every request with at least one
\* known tool call it returns Ok with a non-empty list after exactly 4 requests.
C1_BoundedRoundTrips ==
    /\ Len(DialogueRequests) <= MaxIterations + 1
    /\ iterations <= MaxIterations + 1
    /\ (dpc # "done" => ENABLED DialogueNext)
    /\ (dpc = "done" /\ ProviderLoops =>
            /\ dresult.status = "Ok"
            /\ dresult.messages # <<>>
            /\ Len(DialogueRequests) = MaxIterations + 1)

\* C1 witness: a turn against a looping provider has returned after 4 requests
C1_Witness ==
    /\ dpc = "done"
    /\ ProviderLoops
    /\ Len(DialogueRequests) = 4
    /\ Len(responses) = 4
    /\ dresult.status = "Ok"
    /\ Len(dresult.messages) >= 4

\* a message carries a tool-linkage id exactly when its role is Tool
LinkageIffTool(m) == IsSome(m.tool_call_id) <=> m.role = "Tool"
WireLinkageIffTool(m) == IsSome(m.tool_call_id) <=> m.role = "tool"

\* C10: every message of every conversation sent to a provider, and every
\* message run_dialogue returns, has a tool-linkage id iff its role is Tool.
C10_LinkageIffTool ==
    /\ \A i \in 1..Len(requests) :
        \A j \in 1..Len(requests[i].messages) : WireLinkageIffTool(requests[i].messages[j])
    /\ \A i \in 1..Len(dresult.messages) : LinkageIffTool(dresult.messages[i])

\* the first response of the turn carries no tool call
FirstResponseFinal == responses # <<>> /\ responses[1].tool_calls = <<>>

\* the turn sent one request and returned one Assistant message with the
\* content of the first response
ReturnsFirstContent ==
    /\ Len(DialogueRequests) = 1
    /\ dresult.status = "Ok"
    /\ Len(dresult.messages) = 1
    /\ dresult.messages[1].role = "Assistant"
    /\ dresult.messages[1].content = Unwrap(responses[1].content)

\* C13 as stated: when the first response has zero tool calls and non-empty
\* content, run_dialogue sends exactly one request and returns exactly one
\* message, of role Assistant, with that content.
C13_NonEmptyContentReturned ==
    (dpc = "done" /\ FirstResponseFinal
        /\ IsSome(responses[1].content) /\ Unwrap(responses[1].content) # <<>>)
    => ReturnsFirstContent

\* C13 amended: when the first response has zero tool calls and content that
\* is not whitespace-only, run_dialogue sends exactly one request and returns
\* exactly one message, of role Assistant, with that content; when the content
\* is absent or whitespace-only it returns Ok with no message.
C13_NonBlankContentReturned ==
    (dpc = "done" /\ FirstResponseFinal) =>
        IF IsSome(responses[1].content) /\ Trim(Unwrap(responses[1].content)) # <<>>
        THEN ReturnsFirstContent
        ELSE /\ Len(DialogueRequests) = 1
             /\ dresult = OkMessages(<<>>)

\* C13 witness: a turn over a two-message history got "o" and no tool call
C13_Witness ==
    /\ dpc = "done"
    /\ dreq.history = HistOk
    /\ responses = <<[content |-> Some(<<"o">>), tool_calls |-> <<>>]>>
    /\ Len(DialogueRequests) = 1
    /\ Len(dresult.messages) = 1
    /\ dresult.messages[1].role = "Assistant"
    /\ dresult.messages[1].content = <<"o">>

\* C14: on success run_dialogue returns exactly the messages that follow the
\* user message in the conversation, in conversation order; the conversation
\* is the supplied history, the user message, then those messages.
C14_ReturnsAppendedOnly ==
    (dpc = "done" /\ dresult.status = "Ok") =>
        LET n == Len(dreq.history)
        IN /\ Len(conversation) >= n + 1
           /\ SubSeq(conversation, 1, n) = dreq.history
           /\ conversation[n + 1].role = "User"
           /\ conversation[n + 1].content = Trim(dreq.input)
           /\ dresult.messages = SubSeq(conversation, n + 2, Len(conversation))

\* C14 witness: over a two-message history, a response with text and a tool
\* call, then a final response with text: three messages returned
C14_Witness ==
    /\ dpc = "done"
    /\ dresult.status = "Ok"
    /\ dreq.history = HistOk
    /\ Len(responses) = 2
    /\ Len(conversation) = 6
    /\ Len(dresult.messages) = 3
    /\ dresult.messages[1].role = "Assistant"
    /\ dresult.messages[2].role = "Tool"
    /\ dresult.messages[3].role = "Assistant"

----------------------------------------------------------------------------
(* Properties of run_stream *)

Streams == {r \in RequestIds : spc[r] \in {"reading", "finished"}}

HasError(r) == \E i \in 1..Len(events) :
    events[i].request_id = r /\ events[i].type = "error"

\* C2: every stream whose worker has ended has put a Done or an Error event
\* with its request id on the channel.
C2_TerminalEvent ==
    \A r \in RequestIds :
        spc[r] = "finished" =>
            \E i \in 1..Len(events) :
                events[i].request_id = r /\ events[i].type \in {"done", "error"}

\* a `data:` line whose JSON chunk has one choice with non-empty delta content
IsContentChunk(line) ==
    /\ line.markers = 1
    /\ line.payload.kind = "json"
    /\ line.payload.has_choices
    /\ Len(line.payload.choices) = 1
    /\ IsSome(line.payload.choices[1])
    /\ Unwrap(line.payload.choices[1]) # <<>>

\* an OpenAI-style body of content chunks and blank lines that ends in [DONE]
IsOpenAiContentBody(body) ==
    /\ body # <<>>
    /\ body[Len(body)].payload.kind = "[DONE]"
    /\ \A i \in 1..(Len(body) - 1) : body[i] = BlankLine \/ IsContentChunk(body[i])

RECURSIVE ChunkTexts(_)
\* the delta contents of such a body, in body order
ChunkTexts(body) ==
    IF body = <<>> THEN <<>>
    ELSE (IF IsContentChunk(Head(body)) THEN <<Unwrap(Head(body).payload.choices[1])>>
          ELSE <<>>) \o ChunkTexts(Tail(body))

RECURSIVE Concat(_)
Concat(texts) == IF texts = <<>> THEN <<>> ELSE Head(texts) \o Concat(Tail(texts))

AnswerTexts(r) ==
    LET got == SelectSeq(EventsOf(r), LAMBDA e : e.type = "answer")
    IN [i \in 1..Len(got) |-> got[i].delta]

\* C3: for an OpenAI-style body of n content chunks followed by [DONE], read
\* without an I/O failure, the events of the stream are at every moment a
\* prefix of n Answers in body order followed by one Done, and exactly that
\* sequence once the worker has ended; the Answers' deltas concatenate to the
\* combined text.
C3_OpenAiAnswersThenDone ==
    \A r \in Streams :
        (scfg[r].provider = "Vllm" /\ IsOpenAiContentBody(sbody[r]) /\ ~HasError(r)) =>
            LET expected == Answers(r, ChunkTexts(sbody[r])) \o <<Done(r)>>
            IN /\ IsPrefix(EventsOf(r), expected)
               /\ (spc[r] = "finished" =>
                    /\ EventsOf(r) = expected
                    /\ Concat(AnswerTexts(r)) = Concat(ChunkTexts(sbody[r])))

\* C3 witness: two different chunks, a blank line between them, then [DONE]
C3_Witness ==
    /\ spc["req-1"] = "finished"
    /\ scfg["req-1"].provider = "Vllm"
    /\ sbody["req-1"] = <<DataChunk(<<"a">>), BlankLine, DataChunk(<<"b">>), DataDone>>
    /\ EventsOf("req-1") = <<Answer("req-1", <<"a">>), Answer("req-1", <<"b">>),
                             Done("req-1")>>

\* an Ollama-style line with non-empty message.content and no done:true
IsContentLine(line) ==
    /\ line.markers = 0
    /\ line.payload.kind = "json"
    /\ line.payload.has_message
    /\ IsSome(line.payload.content)
    /\ Unwrap(line.payload.content) # <<>>
    /\ line.payload.done # Some(TRUE)

\* a line with done:true and no content of its own
IsDoneLine(line) ==
    /\ line.markers = 0
    /\ line.payload.kind = "json"
    /\ line.payload.done = Some(TRUE)
    /\ (line.payload.has_message => line.payload.content \in {None, Some(<<>>)})

\* an Ollama-style body of content lines that ends in a done:true line
IsOllamaContentBody(body) ==
    /\ body # <<>>
    /\ IsDoneLine(body[Len(body)])
    /\ \A i \in 1..(Len(body) - 1) : IsContentLine(body[i])

\* the contents of such a body, in body order
LineTexts(body) == [i \in 1..(Len(body) - 1) |-> Unwrap(body[i].payload.content)]

RECURSIVE OpenAiBody(_)
\* the OpenAI-style body for the same contents: one `data:` chunk and one
\* blank line per content, then [DONE]
OpenAiBody(texts) ==
    IF texts = <<>> THEN <<DataDone>>
    ELSE <<Line(FALSE, 1, OpenAiChunk(<<Some(Head(texts))>>)), BlankLine>>
         \o OpenAiBody(Tail(texts))

\* the worker read its body to the end of the stream without an I/O failure
ReadThrough(r) ==
    /\ spc[r] = "finished"
    /\ \A i \in 1..Len(events) :
        events[i].request_id = r => events[i].message \notin {"I/O error", "Request failed"}

\* C4: an Ollama-style stream of n content lines followed by a done:true line
\* emits what the OpenAI-style codec emits for the same contents followed by
\* [DONE]: n Answers in order, then one Done; and what the OpenAI-style codec
\* emits for a body is what an OpenAI-style worker puts on the channel.
C4_OllamaMatchesOpenAi ==
    \A r \in RequestIds :
        ReadThrough(r) =>
            /\ (scfg[r].provider = "Vllm" =>
                    EventsOf(r) = Emitted("Vllm", sbody[r], r))
            /\ (scfg[r].provider = "Ollama" /\ IsOllamaContentBody(sbody[r]) =>
                    /\ EventsOf(r) = Emitted("Vllm", OpenAiBody(LineTexts(sbody[r])), r)
                    /\ EventsOf(r) = Answers(r, LineTexts(sbody[r])) \o <<Done(r)>>)

\* C4 witness: two content lines and the done:true line, no sentinel
C4_Witness ==
    /\ spc["req-1"] = "finished"
    /\ scfg["req-1"].provider = "Ollama"
    /\ sbody["req-1"] = <<NdChunk(<<"a">>), NdChunk(<<"b">>), NdDone>>
    /\ EventsOf("req-1") = <<Answer("req-1", <<"a">>), Answer("req-1", <<"b">>),
                             Done("req-1")>>

\* a non-blank line that is not [DONE] and does not decode as a chunk
IsBadChunk(line) ==
    /\ ~IsBlank(line)
    /\ line.payload.kind # "[DONE]"
    /\ ~(line.payload.kind = "json" /\ line.payload.has_choices)

\* C5: once an OpenAI-style worker has read a line that does not decode, the
\* worker has ended, that line is the last one it read, and its events are the
\* events of the lines before it followed by exactly one Error: nothing is
\* emitted for the bad line or for any line after it.
C5_BadChunkAborts ==
    \A r \in Streams :
        \A p \in 1..spos[r] :
            (scfg[r].provider = "Vllm" /\ IsBadChunk(sbody[r][p])) =>
                /\ spc[r] = "finished"
                /\ spos[r] = p
                /\ Len(EventsOf(r)) >= 1
                /\ LET got == EventsOf(r)
                   IN /\ got[Len(got)].type = "error"
                      /\ SubSeq(got, 1, Len(got) - 1)
                            = Emitted("Vllm", SubSeq(sbody[r], 1, p - 1), r)
                      /\ \A i \in 1..(Len(got) - 1) : got[i].type = "answer"

\* C5 witness: a chunk, a bad chunk, then a chunk and [DONE] that are never read
C5_Witness ==
    /\ spc["req-1"] = "finished"
    /\ scfg["req-1"].provider = "Vllm"
    /\ sbody["req-1"] = <<DataChunk(<<"a">>), JunkLine, DataChunk(<<"b">>), DataDone>>
    /\ spos["req-1"] = 2
    /\ Len(EventsOf("req-1")) = 2
    /\ EventsOf("req-1")[2].type = "error"

----------------------------------------------------------------------------
(* Properties of both entry points *)

\* the requests the worker of a stream has sent
StreamRequests(r) == SelectSeq(requests, LAMBDA q : q.sender = r)

\* whitespace-only, spelled out on the model's alphabet
AllWhitespace(input) == \A i \in 1..Len(input) : input[i] = " "

\* C11: once run_dialogue has been entered with an empty or whitespace-only
\* input it has returned the validation error and sent no request; once
\* run_stream has, it has returned the validation error, no worker was
\* started, no request was sent and no event carries its request id.
C11_BlankInputRejected ==
    /\ (dpc # "idle" /\ AllWhitespace(dreq.input) =>
            /\ dpc = "done"
            /\ dresult = Failure("Message cannot be empty")
            /\ DialogueRequests = <<>>)
    /\ \A r \in RequestIds :
        (spc[r] # "idle" /\ AllWhitespace(sreq[r].input) =>
            /\ spc[r] = "rejected"
            /\ sres[r] = Failure("Message cannot be empty")
            /\ StreamRequests(r) = <<>>
            /\ EventsOf(r) = <<>>)

\* C11 witness: with a model selected, both entry points were given " " and
\* have returned; nothing was sent or emitted
C11_Witness ==
    /\ config.selected_model # None
    /\ dpc = "done"
    /\ dreq.input = <<" ">>
    /\ dresult.error = "Message cannot be empty"
    /\ spc["req-1"] = "rejected"
    /\ sreq["req-1"].input = <<" ">>
    /\ sres["req-1"].error = "Message cannot be empty"
    /\ requests = <<>>
    /\ events = <<>>

\* C12: while the configuration has no selected model, neither entry point
\* sends a request, starts a worker or emits an event, and each call that has
\* returned has returned an error: "Select a model before chatting" for every
\* history whenever the input is not blank.
C12_NoModelNoRequest ==
    config.selected_model = None =>
        /\ requests = <<>>
        /\ events = <<>>
        /\ dpc \in {"idle", "config", "done"}
        /\ (dpc = "done" =>
                dresult = Failure(IF AllWhitespace(dreq.input)
                                  THEN "Message cannot be empty"
                                  ELSE "Select a model before chatting"))
        /\ \A r \in RequestIds :
            /\ spc[r] \in {"idle", "config", "rejected"}
            /\ (spc[r] = "rejected" =>
                    sres[r] = Failure(IF AllWhitespace(sreq[r].input)
                                      THEN "Message cannot be empty"
                                      ELSE "Select a model before chatting"))

\* C12 witness: no model selected, both entry points were given a non-blank
\* input over a non-empty history and have returned the error
C12_Witness ==
    /\ config.selected_model = None
    /\ dpc = "done"
    /\ dreq.history = HistOdd
    /\ dreq.input = <<" ", "h", " ">>
    /\ dresult.error = "Select a model before chatting"
    /\ spc["req-1"] = "rejected"
    /\ sreq["req-1"].history = HistOk
    /\ sreq["req-1"].input = <<" ", "h", " ">>
    /\ sres["req-1"].error = "Select a model before chatting"
    /\ requests = <<>>

\* the messages this process has created: the user message of the dialogue
\* turn and what followed it, and the user message of each stream
CreatedMessages ==
    (IF dpc \in {"send", "await", "loop", "done"} /\ conversation # <<>>
     THEN SubSeq(conversation, Len(dreq.history) + 1, Len(conversation))
     ELSE <<>>)
    \o (IF spc["req-1"] \in {"spawned", "reading", "finished"}
        THEN <<sconv["req-1"][Len(sconv["req-1"])]>> ELSE <<>>)

\* the tool-call ids of the pending response that next_id synthesised
SynthesizedIds ==
    LET made == SelectSeq(pending.tool_calls, LAMBDA call : call.id[1] = "tool-call")
    IN [i \in 1..Len(made) |-> made[i].id]

\* C18: any two messages created in this process have different ids, and so
\* have any two tool-call ids synthesised for one response.
C18_GeneratedIdsUnique ==
    /\ \A i, j \in 1..Len(CreatedMessages) :
            i # j => CreatedMessages[i].id # CreatedMessages[j].id
    /\ \A i, j \in 1..Len(SynthesizedIds) :
            i # j => SynthesizedIds[i] # SynthesizedIds[j]

\* a stream's worker ends without having been served a body
FailsBeforeBody(r) == spc[r] = "spawned" /\ spc'[r] = "finished"

HasToolCall(body) == \E i \in 1..Len(body) : body[i].payload.tool_calls # <<>>

\* C20: a stream sends at most one chat request, exactly one once its worker
\* has posted it: a streaming request whose messages are the supplied history
\* and the user message; its events carry only deltas of the body, never a
\* tool's output; and once the worker has ended no step of the stream remains.
C20_StreamSingleRoundTrip ==
    \A r \in RequestIds :
        /\ Len(StreamRequests(r)) <= 1
        /\ (spc[r] \in {"reading", "finished"} =>
                /\ Len(StreamRequests(r)) = 1
                /\ StreamRequests(r)[1].stream
                /\ Len(StreamRequests(r)[1].messages) = Len(sreq[r].history) + 1
                /\ \A i \in 1..Len(sreq[r].history) :
                        StreamRequests(r)[1].messages[i].content = sreq[r].history[i].content
                /\ StreamRequests(r)[1].messages[Len(sreq[r].history) + 1].role = "user")
        /\ \A i \in 1..Len(events) :
                events[i].type = "answer" => events[i].delta \in Deltas
        /\ (r = "req-1" /\ spc[r] = "finished" => ~ENABLED OneStreamNext)

\* C20 witness: the body held a tool call between two deltas and [DONE]; the
\* stream ended with one request sent and only the deltas answered
C20_Witness ==
    /\ spc["req-1"] = "finished"
    /\ sbody["req-1"] = <<DataChunk(<<"a">>), DataToolCall, DataChunk(<<"b">>), DataDone>>
    /\ HasToolCall(sbody["req-1"])
    /\ Len(requests) = 1
    /\ EventsOf("req-1") = <<Answer("req-1", <<"a">>), Answer("req-1", <<"b">>),
                             Done("req-1")>>

----------------------------------------------------------------------------
(* Properties of the configuration store *)

\* both callers have returned from their first call, a persist_config each
BothPersisted ==
    \A c \in Callers :
        /\ cpc[c] = "idle"
        /\ ccalls[c] = 1
        /\ cop[c].op = "persist_config"

Submitted == {Normalize(cop[c].next) : c \in Callers}

\* C6: after two concurrent persist_config calls with candidates A and B have
\* returned, the in-memory configuration is normalize(A) or normalize(B) in
\* full; a complete file left by at least one successful write holds one of
\* the two in full; and when both calls returned Ok the file holds exactly the
\* in-memory configuration.
C6_NoMixedConfiguration ==
    BothPersisted =>
        /\ config \in Submitted
        /\ ((\E c \in Callers : cres[c].status = "Ok") /\ disk[1].complete =>
                Deserialize(disk[1].json) \in Submitted)
        /\ ((\A c \in Callers : cres[c].status = "Ok") =>
                /\ disk = File(Serialize(config))
                /\ \E c \in Callers : cres[c].value = config)

\* C6 witness: two different candidates were persisted, both calls returned Ok
C6_Witness ==
    /\ BothPersisted
    /\ cop["c1"].next = CandA
    /\ cop["c2"].next = CandB
    /\ \A c \in Callers : cres[c].status = "Ok"
    /\ config = Normalize(CandA)
    /\ cres["c2"].value = Normalize(CandB)

\* C7: whenever the lock is free, the file holds the serialised in-memory
\* configuration.
C7_DiskMatchesMemory ==
    lock = <<>> => disk = File(Serialize(config))

\* the GETs list_models has sent
ListRequests == SelectSeq(requests, LAMBDA q : q.sender = "list_models")

\* C16: list_models sends no request before it has copied its entry and exactly
\* one GET after, to the listing endpoint (/v1/models or /api/tags) and the base
\* URL of the provider it copied; every model it returns is tagged with that
\* provider; the provider it copies is the override when one is given and
\* otherwise the active provider of the configuration at that moment, with
\* that provider's entry; and no step of the call changes the configuration in
\* memory or on disk.
C16_ListModelsOneGet ==
    /\ [](/\ (lpc \in {"idle", "lock", "fetch"} => ListRequests = <<>>)
          /\ (lpc = "await" \/ (lpc = "done" /\ lres.error # "MissingProviderConfig") =>
                /\ Len(ListRequests) = 1
                /\ ListRequests[1].method = "GET"
                /\ ListRequests[1].path =
                        (IF lcfg.provider = "Vllm" THEN "/v1/models" ELSE "/api/tags")
                /\ ListRequests[1].base_url = lcfg.provider_config.base_url)
          /\ (lpc = "done" /\ lres.status = "Ok" =>
                \A i \in 1..Len(lres.models) : lres.models[i].provider = lcfg.provider))
    /\ [][/\ (lpc = "lock" /\ lpc' = "fetch" =>
                LET target == IF larg # None THEN larg[1] ELSE config.active_provider
                IN /\ lcfg'.provider = target
                   /\ lcfg'.provider_config =
                        (IF target = "Vllm" THEN config.providers.vllm
                         ELSE config.providers.ollama))
          /\ (lpc' # lpc => config' = config /\ disk' = disk)]_vars

\* C16 witness: list_models(Some(Ollama)) returned two models from /api/tags
\* while the active provider was Vllm and a persist_config had run beside it
C16_Witness ==
    /\ lpc = "done"
    /\ larg = Some("Ollama")
    /\ config.active_provider = "Vllm"
    /\ cop["c1"].op = "persist_config"
    /\ cpc["c1"] = "idle"
    /\ lres.status = "Ok"
    /\ Len(lres.models) = 2
    /\ lres.models[1].provider = "Ollama"
    /\ Len(ListRequests) = 1
    /\ ListRequests[1].path = "/api/tags"

\* C17: when every call of a process returned Ok and LlmState::initialize then
\* succeeds on the same path, the configuration of the new state is the one
\* the last call returned.
C17_RestartRoundTrip ==
    [][(boot'.n # boot.n /\ boot'.status = "Ok" /\ returned.status = "Ok") =>
            config' = returned.value]_vars

----------------------------------------------------------------------------
(* Properties of normalize *)

\* C8: normalize is idempotent.
C8_NormalizeIdempotent ==
    npc = "twice" => nout2 = nout

\* non-empty, no leading or trailing whitespace, no trailing slash
WellFormedBaseUrl(url) ==
    /\ url # <<>>
    /\ ~IsWhitespace(url[1])
    /\ ~IsWhitespace(url[Len(url)])
    /\ url[Len(url)] # "/"

WellFormedConfig(c) ==
    /\ WellFormedBaseUrl(c.providers.vllm.base_url)
    /\ WellFormedBaseUrl(c.providers.ollama.base_url)

\* C9: each provider's base URL in normalize(config) is non-empty, trimmed and
\* has no trailing slash, and so has the configuration the store holds.
C9_BaseUrlWellFormed ==
    /\ (npc \in {"once", "twice"} => WellFormedConfig(nout))
    /\ WellFormedConfig(config)

----------------------------------------------------------------------------
(* Properties of the configuration lock *)

\* an HTTP exchange of list_models, run_dialogue or run_stream is under way
HttpInFlight ==
    \/ lpc = "await"
    \/ dpc = "await"
    \/ \E r \in RequestIds : spc[r] = "reading"

\* C21: while an HTTP request of list_models, run_dialogue or run_stream is in
\* flight the configuration lock is not held by that operation: it is free or
\* held by a caller of the store, and a caller waiting for it is held up only
\* by another caller of the store, never by the exchange.
C21_LockFreeDuringHttp ==
    HttpInFlight =>
        /\ lock \in {<<>>} \cup {<<c>> : c \in Callers}
        /\ \A c \in Callers :
            (cpc[c] = "lock" /\ \A d \in Callers : lock # <<d>>) => ENABLED Lock(c)

\* persist_config has taken the lock while the three exchanges are in flight
C21_Witness ==
    /\ lpc = "await"
    /\ dpc = "await"
    /\ spc["req-1"] = "reading"
    /\ lock = <<"c1">>
    /\ cop["c1"].op = "persist_config"

----------------------------------------------------------------------------
(* Properties of the tool loop *)

\* what mock_echo answers to a call as the provider sent it: "Echo: " and the
\* text argument, whether the arguments came as an object or as a string
\* encoding one
EchoOf(w) ==
    <<"Echo: ">> \o
        (IF IsSome(w.arguments.text)
            /\ (w.arguments.kind = "object" \/ w.arguments.encodes)
         THEN Unwrap(w.arguments.text) ELSE <<>>)

\* the id of a call: the provider's, or one synthesised for a call without
LinksTo(id, w) ==
    IF IsSome(w.id) THEN id = Unwrap(w.id) ELSE id[1] = "tool-call"

\* the last Len(calls) messages of msgs are the results of the calls, in the
\* order of the calls, each linked to its call
EndsWithResults(msgs, calls, role) ==
    /\ Len(msgs) >= Len(calls)
    /\ \A i \in 1..Len(calls) :
        LET m == msgs[Len(msgs) - Len(calls) + i]
        IN /\ m.role = role
           /\ m.content = EchoOf(calls[i])
           /\ IsSome(m.tool_call_id)
           /\ LinksTo(Unwrap(m.tool_call_id), calls[i])

CountRole(msgs, role) == Cardinality({i \in 1..Len(msgs) : msgs[i].role = role})

\* C22: a request that follows a response with k tool calls carries, as its
\* last k messages, the Tool messages of those calls in the order received,
\* the i-th with the i-th call's result and id, and exactly k Tool messages
\* more than the request before it; the list returned when the loop stops at
\* the bound ends with the Tool messages of the last response in the same way.
C22_ToolResultsInOrder ==
    /\ \A n \in 2..Len(DialogueRequests) :
        LET calls == responses[n - 1].tool_calls
            before == DialogueRequests[n - 1].messages
            after == DialogueRequests[n].messages
        IN /\ calls # <<>>
           /\ EndsWithResults(after, calls, "tool")
           /\ CountRole(after, "tool") = CountRole(before, "tool") + Len(calls)
    /\ (dpc = "done" /\ dresult.status = "Ok" /\ responses # <<>>) =>
        LET calls == responses[Len(responses)].tool_calls
        IN /\ EndsWithResults(dresult.messages, calls, "Tool")
           /\ CountRole(dresult.messages, "Tool") =
                CountRole(WireMessages(conversation), "tool")
                - CountRole(WireMessages(dreq.history), "tool")

\* C22 witness: the first response carried two calls, the second request ends
\* with "Echo: y" and "Echo: x" in that order, the second linked to call 1
C22_Witness ==
    /\ Len(DialogueRequests) >= 2
    /\ responses[1].tool_calls = <<EchoY, EchoX>>
    /\ LET msgs == DialogueRequests[2].messages
       IN /\ msgs[Len(msgs) - 1].content = <<"Echo: ", "y">>
          /\ msgs[Len(msgs)].content = <<"Echo: ", "x">>
          /\ msgs[Len(msgs)].tool_call_id = Some(<<"call", 1>>)

\* the number of messages the loop appends for a sequence of responses: one
\* Assistant message per response with non-blank text, one Tool message per call
RECURSIVE AppendedFor(_)
AppendedFor(rs) ==
    IF rs = <<>> THEN 0
    ELSE (IF IsSome(rs[1].content) /\ ~AllWhitespace(Unwrap(rs[1].content)) THEN 1 ELSE 0)
         + Len(rs[1].tool_calls) + AppendedFor(Tail(rs))

\* C23: when the 4th response of a turn still carries (known) tool calls,
\* run_dialogue returns Ok with everything appended since the user message,
\* the Tool messages of the 4th response's calls last; a turn that ends in an
\* error after its 4th response does so for an unknown tool, not for the bound.
C23_BoundReturnsOk ==
    /\ (dpc = "done" /\ ProviderLoops /\ Len(responses) = MaxIterations + 1) =>
        /\ dresult.status = "Ok"
        /\ dresult.messages =
            SubSeq(conversation, Len(dreq.history) + 2, Len(conversation))
        /\ Len(dresult.messages) = AppendedFor(responses)
        /\ EndsWithResults(dresult.messages,
                           responses[MaxIterations + 1].tool_calls, "Tool")
    /\ (dpc = "done" /\ Len(responses) = MaxIterations + 1 /\ dresult.status = "Err") =>
        dresult.error = "Unknown tool"

\* C23 witness: four responses, each with text and two calls; twelve messages
\* returned, the last the result of the 4th response's second call
C23_Witness ==
    /\ dpc = "done"
    /\ dresult.status = "Ok"
    /\ Len(responses) = MaxIterations + 1
    /\ \A i \in 1..Len(responses) :
        responses[i] = [content |-> Some(<<"o">>), tool_calls |-> <<EchoY, EchoX>>]
    /\ Len(dresult.messages) = 3 * (MaxIterations + 1)
    /\ dresult.messages[Len(dresult.messages)].role = "Tool"
    /\ dresult.messages[Len(dresult.messages)].content = <<"Echo: ", "x">>

----------------------------------------------------------------------------
(* Properties of successive run_dialogue calls *)

\* the requests the current call has sent: those after the ones of the calls
\* that returned before it
SentBefore == IF dreturned = <<>> THEN 0 ELSE dreturned[Len(dreturned)].sent
TurnRequests == SubSeq(DialogueRequests, SentBefore + 1, Len(DialogueRequests))

\* the response names a tool the registry does not have
NamesUnknownTool(message) ==
    \E j \in 1..Len(message.tool_calls) :
        \A k \in 1..Len(available_tools) : message.tool_calls[j].name # available_tools[k]

\* C24: once a response naming an unregistered tool has been processed, the
\* call has returned the "unknown tool" failure having sent no request after
\* that response; the configuration in memory, the file and the lock are as
\* they were; and every call, the one after a failed call included, starts
\* from its own arguments only: its first request carries its history and its
\* trimmed input and nothing else, and what it returns on success is what its
\* own responses made it append.
C24_UnknownToolScopedToTurn ==
    /\ (responses # <<>> /\ NamesUnknownTool(responses[Len(responses)]) /\ dpc # "loop") =>
        /\ dpc = "done"
        /\ dresult = Failure("Unknown tool")
        /\ Len(TurnRequests) = Len(responses)
        /\ ~ENABLED DlgSend
    /\ config = Normalize(CandA)
    /\ disk = File(Serialize(config))
    /\ lock = <<>>
    /\ TurnRequests # <<>> =>
        /\ TurnRequests[1].messages =
            Append(WireMessages(dreq.history),
                   [role |-> "user", content |-> Trim(dreq.input), tool_call_id |-> None])
        /\ TurnRequests[1].model = Unwrap(config.selected_model)
    /\ (dpc = "done" /\ dresult.status = "Ok") =>
        /\ Len(dresult.messages) = AppendedFor(responses)
        /\ Len(TurnRequests) = Len(responses)

\* C24 witness: the first call failed on <<EchoX, Bogus>> after one request;
\* the second call, over another history, ran the tool loop once and returned
\* its three messages
C24_Witness ==
    /\ Len(dreturned) = 1
    /\ dreturned[1].result = Failure("Unknown tool")
    /\ dreturned[1].sent = 1
    /\ dpc = "done"
    /\ dreq.history = HistOk
    /\ Len(responses) = 2
    /\ responses[1].tool_calls = <<EchoX>>
    /\ dresult.status = "Ok"
    /\ Len(dresult.messages) = 3
    /\ Len(TurnRequests[1].messages) = 3

----------------------------------------------------------------------------
(* Properties of the event stream *)

\* a line of an NDJSON body that is an object with "done": true
SaysDone(line) ==
    /\ line.markers = 0
    /\ line.payload.kind = "json"
    /\ line.payload.done = Some(TRUE)

\* the Answer for the text of such a line, if it has any
ClosingAnswer(r, line) ==
    IF line.payload.has_message /\ IsSome(line.payload.content)
       /\ Unwrap(line.payload.content) # <<>>
    THEN <<Answer(r, Unwrap(line.payload.content))>>
    ELSE <<>>

\* C25: once the worker of an Ollama-style stream has read a line with
\* done:true, it has ended having read no line after it, and its events are
\* those of the lines before, then the Answer for that line's non-empty text
\* if any, then Done: nothing of the rest of the body, valid or malformed,
\* shows on the channel.
C25_OllamaDoneEndsStream ==
    \A r \in Streams :
        scfg[r].provider = "Ollama" =>
            \A p \in 1..spos[r] :
                SaysDone(sbody[r][p]) =>
                    /\ spc[r] = "finished"
                    /\ spos[r] = p
                    /\ EventsOf(r) =
                        Emitted("Ollama", SubSeq(sbody[r], 1, p - 1), r)
                        \o ClosingAnswer(r, sbody[r][p]) \o <<Done(r)>>
                    /\ ~HasError(r)
                    /\ Cardinality({i \in 1..Len(events) :
                            events[i].request_id = r /\ events[i].type = "done"}) = 1

\* C25 witness: a chunk, a closing line with text, a malformed line and one
\* more chunk; the worker read two lines and emitted "a", "b", Done
C25_Witness ==
    /\ scfg["req-1"].provider = "Ollama"
    /\ sbody["req-1"] = <<NdChunk(<<"a">>), NdDoneText, JunkLine, NdChunk(<<"a">>)>>
    /\ spc["req-1"] = "finished"
    /\ spos["req-1"] = 2
    /\ EventsOf("req-1") =
        <<Answer("req-1", <<"a">>), Answer("req-1", <<"b">>), Done("req-1")>>

----------------------------------------------------------------------------
(* Properties of the requests of one turn *)

\* the user message as it goes out
UserWire(input) == [role |-> "user", content |-> Trim(input), tool_call_id |-> None]

\* C26: the first request of a turn carries the supplied history followed by
\* the user message with the trimmed input; each later request carries the
\* list of the request before it followed by exactly the messages appended
\* for the response in between (the Assistant message if the response had
\* non-blank text, then one Tool message per call); the request in flight
\* carries the whole conversation; every request carries the tool registry.
C26_ConversationSentInFull ==
    /\ DialogueRequests # <<>> =>
        DialogueRequests[1].messages =
            Append(WireMessages(dreq.history), UserWire(dreq.input))
    /\ \A n \in 2..Len(DialogueRequests) :
        LET before == DialogueRequests[n - 1].messages
            after == DialogueRequests[n].messages
        IN /\ IsPrefix(before, after)
           /\ Len(after) = Len(before) + AppendedFor(<<responses[n - 1]>>)
    /\ \A n \in 1..Len(DialogueRequests) :
        /\ DialogueRequests[n].tools = <<"mock_echo">>
        /\ IsPrefix(DialogueRequests[n].messages, WireMessages(conversation))
    /\ dpc = "await" =>
        DialogueRequests[Len(DialogueRequests)].messages = WireMessages(conversation)
    /\ conversation # <<>> =>
        conversation = Append(dreq.history, conversation[Len(dreq.history) + 1]) \o appended

\* C26 witness: over a two-message history, the second request is in flight;
\* it carries the three messages of the first and then the Assistant message
\* and the two Tool messages appended for the first response
C26_Witness ==
    /\ dpc = "await"
    /\ dreq.history = HistOk
    /\ Len(DialogueRequests) = 2
    /\ responses = <<[content |-> Some(<<"o">>), tool_calls |-> <<EchoY, EchoX>>]>>
    /\ Len(DialogueRequests[1].messages) = 3
    /\ Len(DialogueRequests[2].messages) = 6
    /\ DialogueRequests[2].messages[4].role = "assistant"
    /\ DialogueRequests[2].messages[6].role = "tool"

----------------------------------------------------------------------------
(* Properties of the credential *)

\* the connection a chat request was sent for: the one its turn copied
ConnectionOf(q) ==
    IF q.sender = "dialogue" THEN dcfg.provider_config ELSE scfg[q.sender].provider_config

\* C27: every chat request, non-streaming or streaming, to either provider,
\* carries the bearer credential configured for the connection it was sent
\* for, whenever one is configured.
C27_BearerOnEveryChatRequest ==
    \A i \in 1..Len(requests) :
        (requests[i].method = "POST" /\ IsSome(ConnectionOf(requests[i]).api_key)) =>
            requests[i].bearer = ConnectionOf(requests[i]).api_key

\* what a stream puts on the channel when it runs alone, given what it was
\* served and how far its worker got: the events of the lines read, and
\* after them the Error of a failed send or read if that is how it ended
AloneEvents(r) ==
    IF spc[r] \notin {"reading", "finished"} THEN {<<>>}
    ELSE LET read == Emitted(scfg[r].provider, SubSeq(sbody[r], 1, spos[r]), r)
             ended == read # <<>> /\ read[Len(read)].type \in {"done", "error"}
         IN IF spc[r] = "reading" \/ ended THEN {read}
            ELSE {read \o <<Error(r, "I/O error")>>}
                 \cup (IF spos[r] = Len(sbody[r]) THEN {read} ELSE {})
                 \cup (IF sbody[r] = <<>> THEN {<<Error(r, "Request failed")>>} ELSE {})

\* C28: with two streams under way, the events tagged with each request id
\* are, in order, the events that stream produces alone from its own body,
\* whatever the other stream was served and however the two workers
\* interleave; every event on the channel is tagged with the request id of
\* the call whose worker emitted it, so the channel holds nothing else.
C28_StreamsIndependent ==
    /\ \A r \in RequestIds : EventsOf(r) \in AloneEvents(r)
    /\ \A i \in 1..Len(events) : events[i].request_id \in Streams
    /\ Len(events) = Len(EventsOf("req-1")) + Len(EventsOf("req-2"))

\* C28 witness: both workers ran to the end over different bodies and their
\* events alternate on the channel
C28_Witness ==
    /\ spc["req-1"] = "finished"
    /\ spc["req-2"] = "finished"
    /\ sbody["req-1"] = <<DataChunk(<<"a">>), DataDone>>
    /\ sbody["req-2"] = <<DataChunk(<<"b">>), JunkLine>>
    /\ events = <<Answer("req-1", <<"a">>), Answer("req-2", <<"b">>),
                  Done("req-1"), Error("req-2", "Invalid configuration")>>

----------------------------------------------------------------------------
(* Properties of update_selected_model *)

\* the model id update_selected_model is specified to store: the trimmed
\* argument, or nothing when the argument is absent or blank
StoredModel(model_id) ==
    IF model_id = None \/ AllWhitespace(Unwrap(model_id)) THEN None
    ELSE Some(Trim(Unwrap(model_id)))

Terminals(r) ==
    {i \in 1..Len(EventsOf(r)) : EventsOf(r)[i].type \in {"done", "error"}}

\* C30: among the events of one request id there is at most one Done or
\* Error, it is the last event of that id, and the worker has ended when it
\* is there: no Answer, Done or Error follows it.
C30_OneTerminalEventLast ==
    \A r \in RequestIds :
        /\ Cardinality(Terminals(r)) <= 1
        /\ \A i \in Terminals(r) : i = Len(EventsOf(r))
        /\ (Terminals(r) # {} => spc[r] = "finished")

\* C30 witness: [DONE] came second in a body of four lines; the stream ended
\* with one Answer and one Done, the chunk and the malformed line after
\* [DONE] unread
C30_Witness ==
    /\ spc["req-1"] = "finished"
    /\ sbody["req-1"] = <<DataChunk(<<"a">>), DataDone, DataChunk(<<"b">>), JunkLine>>
    /\ spos["req-1"] = 2
    /\ EventsOf("req-1") = <<Answer("req-1", <<"a">>), Done("req-1")>>
    /\ Terminals("req-1") = {2}

----------------------------------------------------------------------------
(* Properties of the configuration a turn uses *)

\* where a chat request goes and as whom: provider endpoint, base URL,
\* credential and model
Destination(q) ==
    [path |-> q.path, base_url |-> q.base_url, bearer |-> q.bearer, model |-> q.model]

\* C31: every request of a run_dialogue turn goes to the provider, base URL,
\* credential and model of the turn's first request, whatever persist_config
\* or update_selected_model has made of the configuration in between; the
\* first request goes where the configuration copied at the start of the
\* turn says.
C31_TurnKeepsItsSnapshot ==
    /\ \A n \in 1..Len(DialogueRequests) :
        Destination(DialogueRequests[n]) = Destination(DialogueRequests[1])
    /\ DialogueRequests # <<>> =>
        /\ DialogueRequests[1].path = ChatPath(dcfg.provider)
        /\ DialogueRequests[1].base_url = dcfg.provider_config.base_url
        /\ DialogueRequests[1].model = dcfg.model

\* C31 witness: persist_config has made Ollama the active provider since the
\* turn copied its configuration; the turn's second request went to the
\* OpenAI-compatible endpoint with the credential and the model of the first
C31_Witness ==
    /\ Len(DialogueRequests) = 2
    /\ cop["c1"].op = "persist_config"
    /\ cpc["c1"] = "idle"
    /\ cres["c1"].status = "Ok"
    /\ config = Normalize(CandB)
    /\ Len(requests[1].messages) < Len(requests[2].messages)
    /\ DialogueRequests[2].path = "/v1/chat/completions"
    /\ DialogueRequests[2].base_url = <<"a">>
    /\ DialogueRequests[2].bearer = Some(<<"k">>)
    /\ DialogueRequests[2].model = <<"m">>

----------------------------------------------------------------------------
(* Properties of the returned messages *)

\* the responses whose content is text: present and not whitespace-only
WithText(rs) ==
    {i \in 1..Len(rs) : IsSome(rs[i].content) /\ ~AllWhitespace(Unwrap(rs[i].content))}

\* C32: every message run_dialogue returns, and every message it has appended
\* so far, has role Assistant or Tool, and an Assistant message has content
\* that is not whitespace-only; the returned list holds one Assistant message
\* per response with such content and none for a response whose content is
\* absent, empty or blank; a turn whose only response has blank content and
\* no tool call returns Ok with an empty list.
C32_ResultRolesAndText ==
    /\ \A i \in 1..Len(appended) :
        /\ appended[i].role \in {"Assistant", "Tool"}
        /\ (appended[i].role = "Assistant" => ~AllWhitespace(appended[i].content))
    /\ (dpc = "done" /\ dresult.status = "Ok") =>
        /\ dresult.messages = appended
        /\ CountRole(dresult.messages, "Assistant") = Cardinality(WithText(responses))
        /\ (Len(responses) = 1 /\ WithText(responses) = {}
                /\ responses[1].tool_calls = <<>>) => dresult = OkMessages(<<>>)

\* C32 witness: a response with empty content and a tool call, then a final
\* response with blank content; the turn returned the Tool message alone
C32_Witness ==
    /\ dpc = "done"
    /\ responses = <<[content |-> Some(<<>>), tool_calls |-> <<EchoX>>],
                     [content |-> Some(<<" ">>), tool_calls |-> <<>>]>>
    /\ dresult.status = "Ok"
    /\ Len(dresult.messages) = 1
    /\ dresult.messages[1].role = "Tool"

====
